---- MODULE Spec2Model ----
(***************************************************************************)
(* MilkyClient (crates/milky-rust-sdk/src/client.rs): the outbound call    *)
(* dispatcher send_request with its response-envelope unwrapping, and the  *)
(* inbound event transport (WebSocket read loop / WebHook server) with the *)
(* event decoding of milky-types.                                          *)
(***************************************************************************)
EXTENDS Integers, Sequences, FiniteSets, TLC

VARIABLES
    reqPc,      \* position of the send_request call: "idle", "awaiting", "done"
    reqArgs,    \* the call's action and expected result type R
    reqResp,    \* the HTTP response as received (NoResp before it arrives)
    reqOut,     \* the Result<R> the call returned (NoOut before it returns)
    comm_type,              \* "WebSocket" or "WebHook", fixed at construction
    ws_stream,              \* the slot Mutex<Option<WebSocketStream>>: 0 or a connection
    streamLock,             \* the read-loop task holding the ws_stream mutex, or 0
    ws_shutdown_signal_tx,  \* the slot Mutex<Option<oneshot::Sender>>: 0 or a session
    sig,                    \* per session: its oneshot channel
    loopPc,                 \* per session: position of its read-loop task
    loopMsg,                \* per session: the Event its suspended send holds, or 0
    loopConn,               \* per session: the stream its loop took to close
    connState,              \* per connection: "none", "open", "closed", "dropped"
    connEnd,                \* per connection: "no", or "ended" once next() yielded None or Err
    closeCalls,             \* per connection: the sessions whose loop called close()
    event_chan,             \* the bounded mpsc channel of Events
    rxOpen,                 \* the application still holds the receiver
    received,               \* the Events the consumer has received, in order
    readLog,                \* the messages stream.next() has yielded, in order
    staleRead,              \* a loop read a connection that was not in the slot
    appPc,                  \* position of the connect_events call in progress
    appConn,                \* the connection that call has opened
    connectResult,          \* per call: what connect_events returned
    nConnects,              \* connect_events calls so far
    nShutdowns,             \* shutdown calls so far
    whPc,                   \* per session: position of its WebHook server task
    whInflight,             \* the handlers suspended on the full channel
    whReplies,              \* per delivery: what the handler answered
    nPosts,                 \* WebHook deliveries so far
    codecIn,                \* the Event handed to the serializer, if any
    codecWire,              \* the text frames to decode, in order
    codecOut,               \* per decoded frame: the result of from_str::<Event>
    comm,                   \* the Communication value handed to MilkyClient::new
    built,                  \* what MilkyClient::new returned, once it has
    posted,                 \* the action and address of the request posted
    old_ws_stream,          \* src/src/client.rs: the slot holds a connection
    old_guard,              \* who holds the slot's mutex: "free", "loop", "close"
    old_waiters,            \* the tasks queued on the mutex, oldest first
    old_loopPc,             \* the read loop: "none", "lock", "reading", "sending", "done"
    old_closePc,            \* close_event_stream: "idle", "lock", "closing", "done"
    old_conn,               \* the connection: "none", "open", "closed", "ended"
    old_read,               \* messages the loop has read
    old_connects,           \* connect_events calls so far
    old_chan                \* Events in the bounded channel

reqVars == <<reqPc, reqArgs, reqResp, reqOut>>

slotVars == <<ws_stream, streamLock, ws_shutdown_signal_tx, sig>>

loopVars == <<loopPc, loopMsg, loopConn>>

connVars == <<connState, connEnd, closeCalls>>

chanVars == <<event_chan, rxOpen, received>>

logVars == <<readLog, staleRead>>

appVars == <<appPc, appConn, connectResult, nConnects, nShutdowns>>

whVars == <<whPc, whInflight, whReplies, nPosts>>

tVars == <<comm_type, slotVars, loopVars, connVars, chanVars, logVars, appVars,
           whVars>>

codecVars == <<codecIn, codecWire, codecOut>>

newVars == <<comm, built, posted>>

oldVars ==
    <<old_ws_stream, old_guard, old_waiters, old_loopPc, old_closePc,
      old_conn, old_read, old_connects, old_chan>>

extVars == <<codecVars, newVars, oldVars>>

vars == <<reqVars, tVars, extVars>>

(***************************************************************************)
(* JSON documents (serde_json::Value): a value is a record tagged with its *)
(* JSON type; an object's v is a function from its keys to values.         *)
(***************************************************************************)
JNull == [ty |-> "null", v |-> 0]

JInt(n) == [ty |-> "int", v |-> n]

JStr(s) == [ty |-> "str", v |-> s]

JBool(b) == [ty |-> "bool", v |-> b]

JObj(f) == [ty |-> "obj", v |-> f]

JArr(s) == [ty |-> "arr", v |-> s]

EmptyObj == JObj(<<>>)

HasKey(o, k) == o.ty = "obj" /\ k \in DOMAIN o.v

\* Option<T> fields of a derived Deserialize: a missing key and null are None.
IsNone(o, k) == ~HasKey(o, k) \/ o.v[k].ty = "null"

\* An i64 / i32 field accepts a JSON integer; every integer of this model lies
\* within both ranges, a JSON number outside them is a value of type "float".
IsI64(x) == x.ty = "int"

(***************************************************************************)
(* send_request                                                            *)
(***************************************************************************)
NoResp == [http |-> 0]

NoOut == [kind |-> "none"]

Actions == {"get_login_info", "set_nickname"}

\* The result type R each wrapper asks send_request for.
ResultTypeOf(action) ==
    IF action = "get_login_info" THEN "GetLoginInfoResponse" ELSE "unit"

LoginData == JObj([uin |-> JInt(1), nickname |-> JStr("x")])

\* The bodies the test double answers with: envelopes with every combination
\* of status, retcode, data and message, an object that is no envelope, a
\* body that is no JSON, and a body whose read fails.
EnvelopeFields ==
    { f \in [ {"status", "retcode", "data", "message"} ->
                {JStr("ok"), JStr("failed"), JInt(0), JInt(34), JNull,
                 LoginData, EmptyObj, JStr("no perm")} ] :
        /\ f["status"] \in {JStr("ok"), JStr("failed")}
        /\ f["retcode"] \in {JInt(0), JInt(34)}
        /\ f["data"] \in {JNull, LoginData, EmptyObj}
        /\ f["message"] \in {JStr("no perm"), JNull} }

Without(f, k) == [x \in DOMAIN f \ {k} |-> f[x]]

EnvelopeDocs ==
    { JObj(f) : f \in EnvelopeFields }
        \cup { JObj(Without(f, "data")) : f \in EnvelopeFields }
        \cup { JObj(Without(f, "message")) :
                 f \in {g \in EnvelopeFields : g["data"] = LoginData} }
        \cup { JObj(Without(f, "retcode")) :
                 f \in {g \in EnvelopeFields : g["data"] = JNull} }

Bodies ==
    { [io |-> "ok", json |-> TRUE, doc |-> d] : d \in EnvelopeDocs }
        \cup { [io |-> "ok", json |-> FALSE, doc |-> JStr("Bad Gateway")],
               [io |-> "err", json |-> FALSE, doc |-> JNull] }

HttpStatuses == {200, 201, 404, 500}

\* reqwest::StatusCode::OK
StatusCodeOK == 200

\* The fixed texts of client.rs:431 and client.rs:439 (in English here).
UnknownApiError == "unknown API error"

UnknownHttpError == "unknown HTTP error"

\* http_response.json::<ApiResponse<Value>>(): status and retcode are
\* required, data and message are Options.
ParseApiResponse(body) ==
    IF body.io # "ok" \/ ~body.json \/ body.doc.ty # "obj"
    THEN [ok |-> FALSE]
    ELSE LET o == body.doc IN
         IF ~HasKey(o, "status") \/ ~HasKey(o, "retcode") THEN [ok |-> FALSE]
         ELSE IF o.v["status"].ty # "str" \/ ~IsI64(o.v["retcode"])
         THEN [ok |-> FALSE]
         ELSE IF ~IsNone(o, "message") /\ o.v["message"].ty # "str"
         THEN [ok |-> FALSE]
         ELSE [ok |-> TRUE,
               status |-> o.v["status"].v,
               retcode |-> o.v["retcode"].v,
               data |-> IF IsNone(o, "data") THEN [some |-> FALSE]
                        ELSE [some |-> TRUE, val |-> o.v["data"]],
               message |-> IF IsNone(o, "message") THEN [some |-> FALSE]
                           ELSE [some |-> TRUE, val |-> o.v["message"].v]]

\* serde_json::from_value::<R>(data): () accepts null only, a record type
\* needs an object with its required fields.
FromValue(rtype, data) ==
    IF rtype = "unit"
    THEN IF data.ty = "null" THEN [ok |-> TRUE, val |-> "()"] ELSE [ok |-> FALSE]
    ELSE IF /\ HasKey(data, "uin") /\ IsI64(data.v["uin"])
            /\ HasKey(data, "nickname") /\ data.v["nickname"].ty = "str"
         THEN [ok |-> TRUE,
               val |-> [uin |-> data.v["uin"].v,
                        nickname |-> data.v["nickname"].v]]
         ELSE [ok |-> FALSE]

\* api_resp.data.unwrap_or(Value::Null)
UnwrapData(env) == IF env.data.some THEN env.data.val ELSE JNull

\* http_response.text().await.unwrap_or(..)
BodyText(body) ==
    IF body.io = "ok" THEN [text |-> body.doc] ELSE [text |-> JStr(UnknownHttpError)]

\* A status check that lets client errors through to the envelope parser.
IsOkStatus_Below500(status) == status < 500

IsOkStatus(status) == status = StatusCodeOK

IsOkEnvelope(env) == env.status = "ok" /\ env.retcode = 0

\* The part of send_request after the response has arrived.
UnwrapResponse(rtype, resp) ==
    IF IsOkStatus(resp.http)
    THEN LET env == ParseApiResponse(resp.body) IN
         IF ~env.ok THEN [kind |-> "Reqwest"]
         ELSE IF IsOkEnvelope(env)
         THEN LET r == FromValue(rtype, UnwrapData(env)) IN
              IF r.ok THEN [kind |-> "Ok", value |-> r.val]
              ELSE [kind |-> "Json"]
         ELSE [kind |-> "ApiError",
               message |-> IF env.message.some THEN env.message.val
                           ELSE UnknownApiError,
               retcode |-> env.retcode]
    ELSE [kind |-> "HttpApiError",
          status |-> resp.http,
          message |-> BodyText(resp.body).text]

\* send_request up to the send: the request is posted.
SendRequestPost(action) ==
    /\ reqPc = "idle"
    /\ reqPc' = "awaiting"
    /\ reqArgs' = [action |-> action, rtype |-> ResultTypeOf(action)]
    /\ reqResp' = NoResp
    /\ reqOut' = NoOut
    /\ UNCHANGED <<tVars, extVars>>

\* send().await? fails: no response arrives.
SendRequestNoResponse ==
    /\ reqPc = "awaiting"
    /\ reqPc' = "done"
    /\ reqOut' = [kind |-> "Reqwest"]
    /\ UNCHANGED <<reqArgs, reqResp>>
    /\ UNCHANGED <<tVars, extVars>>

\* The response arrives and is unwrapped.
SendRequestResponse(http, body) ==
    /\ reqPc = "awaiting"
    /\ reqPc' = "done"
    /\ reqResp' = [http |-> http, body |-> body]
    /\ reqOut' = UnwrapResponse(reqArgs.rtype, reqResp')
    /\ UNCHANGED reqArgs
    /\ UNCHANGED <<tVars, extVars>>

\* The caller has its Result; the client holds nothing of the call.
SendRequestReturn ==
    /\ reqPc = "done"
    /\ reqPc' = "idle"
    /\ UNCHANGED <<reqArgs, reqResp, reqOut>>
    /\ UNCHANGED <<tVars, extVars>>

ReqInit ==
    /\ reqPc = "idle"
    /\ reqArgs = [action |-> "none", rtype |-> "unit"]
    /\ reqResp = NoResp
    /\ reqOut = NoOut

ReqNext ==
    \/ \E a \in Actions : SendRequestPost(a)
    \/ SendRequestNoResponse
    \/ \E h \in HttpStatuses, b \in Bodies : SendRequestResponse(h, b)
    \/ SendRequestReturn

(***************************************************************************)
(* Properties of send_request                                              *)
(***************************************************************************)
\* The response of the finished call, read off the wire.
Responded == reqPc = "done" /\ reqResp.http # 0

Is2xx(h) == h >= 200 /\ h <= 299

\* The body is an envelope: an object with a string status and an integer
\* retcode (and a message that is a string when there is one).
IsEnvelope(b) ==
    /\ b.io = "ok" /\ b.json /\ b.doc.ty = "obj"
    /\ "status" \in DOMAIN b.doc.v /\ b.doc.v["status"].ty = "str"
    /\ "retcode" \in DOMAIN b.doc.v /\ b.doc.v["retcode"].ty = "int"
    /\ ("message" \in DOMAIN b.doc.v =>
            b.doc.v["message"].ty \in {"str", "null"})

EnvelopeSaysOk(b) ==
    b.doc.v["status"] = JStr("ok") /\ b.doc.v["retcode"] = JInt(0)

DataAbsent(b) == "data" \notin DOMAIN b.doc.v

\* The envelope's data has the shape of the caller's type.
DataFits(rtype, b) ==
    IF rtype = "unit"
    THEN DataAbsent(b) \/ b.doc.v["data"] = JNull
    ELSE ~DataAbsent(b) /\ b.doc.v["data"] = LoginData

\* C1 (as claimed): the triple (HTTP status, envelope status, envelope
\* retcode) fixes the outcome: TransportError (HttpApiError) iff the HTTP
\* status is not 2xx, success iff 2xx with status "ok" and retcode 0,
\* ApplicationError (ApiError) in every remaining case. Stated for the
\* responses whose data fits the caller's type.
C1_ClassificationRule ==
    Responded =>
        LET h == reqResp.http
            b == reqResp.body
        IN  /\ ~Is2xx(h) => reqOut.kind = "HttpApiError"
            /\ reqOut.kind = "HttpApiError" => ~Is2xx(h)
            /\ (Is2xx(h) /\ IsEnvelope(b) /\ EnvelopeSaysOk(b)
                    /\ DataFits(reqArgs.rtype, b)) => reqOut.kind = "Ok"
            /\ (Is2xx(h) /\ IsEnvelope(b) /\ ~EnvelopeSaysOk(b))
                    => reqOut.kind = "ApiError"

\* C2 (as claimed): every 2xx response with an envelope yields the converted
\* data when the envelope says ok/0, and otherwise an ApiError carrying the
\* envelope's retcode and message; a 2xx response is never an HttpApiError.
C2_Every2xxIsUnwrapped ==
    (Responded /\ Is2xx(reqResp.http) /\ IsEnvelope(reqResp.body)) =>
        LET b == reqResp.body IN
        /\ reqOut.kind # "HttpApiError"
        /\ (EnvelopeSaysOk(b) /\ DataFits(reqArgs.rtype, b)) =>
              reqOut = [kind |-> "Ok",
                        value |-> IF reqArgs.rtype = "unit" THEN "()"
                                  ELSE [uin |-> 1, nickname |-> "x"]]
        /\ ~EnvelopeSaysOk(b) =>
              /\ reqOut.kind = "ApiError"
              /\ reqOut.retcode = b.doc.v["retcode"].v
              /\ ("message" \in DOMAIN b.doc.v /\ b.doc.v["message"].ty = "str")
                    => reqOut.message = b.doc.v["message"].v

\* C3: a response whose HTTP status is not 2xx yields HttpApiError carrying
\* that status and the body as read (the fixed text when the body cannot be
\* read), whatever the body is - an ok/0 envelope included.
C3_Non2xxIsTransportError ==
    (Responded /\ ~Is2xx(reqResp.http)) =>
        /\ reqOut.kind = "HttpApiError"
        /\ reqOut.status = reqResp.http
        /\ reqResp.body.io = "ok" => reqOut.message = reqResp.body.doc
        /\ reqResp.body.io # "ok" => reqOut.message = JStr(UnknownHttpError)

\* A 404 whose body is the well-formed envelope {status: ok, retcode: 0,
\* data: {uin: 1, nickname: x}} has been answered with HttpApiError.
C3_Witness ==
    /\ Responded
    /\ reqResp.http = 404
    /\ IsEnvelope(reqResp.body)
    /\ EnvelopeSaysOk(reqResp.body)
    /\ DataFits(reqArgs.rtype, reqResp.body)
    /\ reqOut.kind = "HttpApiError"

\* C4 (as claimed): a 2xx ok/0 envelope without data gives the caller that
\* expects the unit result a success carrying it.
C4_AbsentDataIsUnit ==
    (/\ Responded /\ Is2xx(reqResp.http) /\ IsEnvelope(reqResp.body)
     /\ EnvelopeSaysOk(reqResp.body) /\ DataAbsent(reqResp.body)
     /\ reqArgs.rtype = "unit")
        => reqOut = [kind |-> "Ok", value |-> "()"]

(***************************************************************************)
(* Event decoding (milky-types): the derived and hand-written Deserialize  *)
(* implementations of Event, EventKind, MessageEvent and their parts.      *)
(***************************************************************************)
Req_Optional(t) == [ty |-> t, opt |-> TRUE]

Req(t) == [ty |-> t, opt |-> FALSE]

Opt(t) == [ty |-> t, opt |-> TRUE]

MessageScenes == {"friend", "group", "temp"}

Sexes == {"male", "female", "unknown"}

GroupRoles == {"owner", "admin", "member"}

\* The tags of EventKind (rename_all = "snake_case").
EventTags ==
    {"bot_offline", "message_receive", "message_recall", "friend_request",
     "group_join_request", "group_invited_join_request", "group_invitation",
     "friend_nudge", "friend_file_upload", "group_admin_change",
     "group_essence_message_change", "group_member_increase",
     "group_member_decrease", "group_name_change", "group_message_reaction",
     "group_mute", "group_whole_mute", "group_nudge", "group_file_upload"}

\* The tags of IncomingSegment (rename_all = "snake_case": an underscore goes
\* before every upper-case letter but the first, so the variant XML has the
\* tag "x_m_l").
SegmentTags ==
    {"text", "mention", "mention_all", "face", "reply", "image", "record",
     "video", "file", "forward", "market_face", "light_app", "x_m_l"}

IncomingMessageFields ==
    [peer_id |-> Req("int"), message_seq |-> Req("int"),
     sender_id |-> Req("int"), time |-> Req("int"),
     segments |-> Req("segments"), message_scene |-> Req("scene")]

\* The fields of a struct or struct variant: name -> type and whether it is
\* an Option.
Schema(name) ==
    CASE name = "bot_offline" -> [reason |-> Req("str")]
      [] name = "message_recall" ->
            [message_scene |-> Req("scene"), peer_id |-> Req("int"),
             message_seq |-> Req("int"), sender_id |-> Req("int"),
             operator_id |-> Req("int"), display_suffix |-> Req("str")]
      [] name = "friend_request" ->
            [initiator_id |-> Req("str"), initiator_uid |-> Req("int"),
             comment |-> Req("str"), via |-> Req("str")]
      [] name = "group_join_request" ->
            [group_id |-> Req("int"), notification_seq |-> Req("int"),
             is_filtered |-> Req("bool"), initiator_id |-> Req("int"),
             comment |-> Req("str")]
      [] name = "group_invited_join_request" ->
            [group_id |-> Req("int"), notification_seq |-> Req("int"),
             initiator_id |-> Req("int"), target_user_id |-> Req("int")]
      [] name = "group_invitation" ->
            [group_id |-> Req("int"), invitation_seq |-> Req("int"),
             initiator_id |-> Req("int")]
      [] name = "friend_nudge" ->
            [user_id |-> Req("int"), is_self_send |-> Req("bool"),
             is_self_receive |-> Req("bool"), display_action |-> Req("str"),
             display_suffix |-> Req("str"),
             display_action_img_url |-> Req("str")]
      [] name = "friend_file_upload" ->
            [user_id |-> Req("int"), file_id |-> Req("str"),
             file_name |-> Req("str"), file_size |-> Req("int"),
             file_hash |-> Req("str"), is_self |-> Req("bool")]
      [] name = "group_admin_change" ->
            [group_id |-> Req("int"), user_id |-> Req("int"),
             operator_id |-> Req("int"), is_set |-> Req("bool")]
      [] name = "group_essence_message_change" ->
            [group_id |-> Req("int"), message_seq |-> Req("int"),
             is_set |-> Req("bool")]
      [] name = "group_member_increase" ->
            [group_id |-> Req("int"), user_id |-> Req("int"),
             operator_id |-> Opt("int"), invitor_id |-> Opt("int")]
      [] name = "group_member_decrease" ->
            [group_id |-> Req("int"), user_id |-> Req("int"),
             operator_id |-> Opt("int")]
      [] name = "group_name_change" ->
            [group_id |-> Req("int"), group_new_name |-> Req("str"),
             operator_id |-> Req("int")]
      [] name = "group_message_reaction" ->
            [group_id |-> Req("int"), user_id |-> Req("int"),
             message_seq |-> Req("int"), face_id |-> Req("str"),
             is_add |-> Req("bool")]
      [] name = "group_mute" ->
            [group_id |-> Req("int"), user_id |-> Req("int"),
             operator_id |-> Req("int"), duration |-> Req("int")]
      [] name = "group_whole_mute" ->
            [group_id |-> Req("int"), operator_id |-> Req("int"),
             is_mute |-> Req("bool")]
      [] name = "group_nudge" ->
            [group_id |-> Req("int"), sender_id |-> Req("int"),
             receiver_id |-> Req("int"), display_action |-> Req("str"),
             display_suffix |-> Req("str"),
             display_action_img_url |-> Req("str")]
      [] name = "group_file_upload" ->
            [group_id |-> Req("int"), user_id |-> Req("int"),
             file_id |-> Req("str"), file_name |-> Req("str"),
             file_size |-> Req("int")]
      [] name = "FriendMessage" ->
            IncomingMessageFields @@ [friend |-> Req("Friend")]
      [] name = "GroupMessage" ->
            IncomingMessageFields @@
                [group |-> Req("Group"), group_member |-> Req("GroupMember")]
      [] name = "TempMessage" ->
            IncomingMessageFields @@ [group |-> Opt("Group")]
      [] name = "Friend" ->
            [user_id |-> Req("int"), nickname |-> Req("str"),
             sex |-> Req("sex"), qid |-> Opt("str"), remark |-> Req("str"),
             category |-> Opt("FriendCategory")]
      [] name = "FriendCategory" ->
            [category_id |-> Req("int"), category_name |-> Req("str")]
      [] name = "Group" ->
            [group_id |-> Req("int"), group_name |-> Req("str"),
             member_count |-> Req("int"), max_member_count |-> Req("int")]
      [] name = "GroupMember" ->
            [user_id |-> Req("int"), nickname |-> Req("str"),
             sex |-> Req("sex"), group_id |-> Req("int"),
             card |-> Req("str"), title |-> Req("str"),
             level |-> Req("int"), role |-> Req("role"),
             join_time |-> Req("int"), last_sent_time |-> Req("int"),
             shut_up_end_time |-> Opt("int")]
      [] name = "seg:text" -> [text |-> Req("str")]
      [] name = "seg:mention" -> [user_id |-> Req("int")]
      [] name = "seg:mention_all" -> <<>>
      [] name = "seg:face" -> [face_id |-> Req("str")]
      [] name = "seg:reply" -> [message_seq |-> Req("int")]
      [] name = "seg:image" ->
            [resource_id |-> Req("str"), temp_url |-> Req("str"),
             width |-> Req("int"), height |-> Req("int"),
             summary |-> Req("str"), sub_type |-> Req("str")]
      [] name = "seg:record" ->
            [resource_id |-> Req("str"), temp_url |-> Req("str"),
             duration |-> Req("int")]
      [] name = "seg:video" ->
            [resource_id |-> Req("str"), temp_url |-> Req("str"),
             width |-> Req("int"), height |-> Req("int"),
             duration |-> Req("int")]
      [] name = "seg:file" ->
            [file_id |-> Req("str"), file_name |-> Req("str"),
             file_size |-> Req("int"), file_hash |-> Opt("str")]
      [] name = "seg:forward" -> [forward_id |-> Req("str")]
      [] name = "seg:market_face" -> [url |-> Req("str")]
      [] name = "seg:light_app" ->
            [app_name |-> Req("str"), json_payload |-> Req("str")]
      [] name = "seg:x_m_l" ->
            [service_id |-> Req("int"), xml_payload |-> Req("str")]

Primitive(t) == t \in {"int", "str", "bool", "scene", "sex", "role"}

\* Whether a JSON value deserializes as a primitive or unit-enum type.
ValidPrimitive(t, x) ==
    CASE t = "int" -> x.ty = "int"
      [] t = "str" -> x.ty = "str"
      [] t = "bool" -> x.ty = "bool"
      [] t = "scene" -> x.ty = "str" /\ x.v \in MessageScenes
      [] t = "sex" -> x.ty = "str" /\ x.v \in Sexes
      [] t = "role" -> x.ty = "str" /\ x.v \in GroupRoles

RECURSIVE Valid(_, _)
\* Whether the JSON value x deserializes as the type t: every required field
\* of a struct is present and valid, an Option field is absent, null or
\* valid, unknown fields are ignored; a segment list is valid as a whole.
Valid(t, x) ==
    IF Primitive(t) THEN ValidPrimitive(t, x)
    ELSE IF t = "segments"
    THEN /\ x.ty = "arr"
         /\ \A i \in DOMAIN x.v :
              LET g == x.v[i] IN
              /\ HasKey(g, "type")
              /\ g.v["type"].ty = "str"
              /\ g.v["type"].v \in SegmentTags
              /\ HasKey(g, "data")
              /\ Valid("seg:" \o g.v["type"].v, g.v["data"])
    ELSE /\ x.ty = "obj"
         /\ \A f \in DOMAIN Schema(t) :
              IF Schema(t)[f].opt
              THEN IsNone(x, f) \/ Valid(Schema(t)[f].ty, x.v[f])
              ELSE HasKey(x, f) /\ Valid(Schema(t)[f].ty, x.v[f])

RECURSIVE Typed(_, _)
\* The typed value a valid x deserializes to: exactly the fields of the
\* type, None (JNull) for an absent Option, unknown fields dropped.
Typed(t, x) ==
    IF Primitive(t) THEN x
    ELSE IF t = "segments"
    THEN JArr([i \in DOMAIN x.v |->
                JObj([type |-> x.v[i].v["type"],
                      data |-> Typed("seg:" \o x.v[i].v["type"].v,
                                     x.v[i].v["data"])])])
    ELSE JObj([f \in DOMAIN Schema(t) |->
                IF IsNone(x, f) THEN JNull
                ELSE Typed(Schema(t)[f].ty, x.v[f])])

SceneOf_ByShape(data) ==
    IF HasKey(data, "friend") THEN "friend"
    ELSE IF HasKey(data, "group_member") THEN "group"
    ELSE "temp"

\* value.get("message_scene").and_then(|v| v.as_str()).unwrap_or_default()
SceneOf(data) ==
    IF HasKey(data, "message_scene") /\ data.v["message_scene"].ty = "str"
    THEN data.v["message_scene"].v
    ELSE ""

\* The struct the scene selects in MessageEvent::deserialize.
SceneStruct(scene) ==
    CASE scene = "friend" -> "FriendMessage"
      [] scene = "group" -> "GroupMessage"
      [] scene = "temp" -> "TempMessage"

SceneVariant(scene) ==
    CASE scene = "friend" -> "Friend"
      [] scene = "group" -> "Group"
      [] scene = "temp" -> "Temp"

\* MessageEvent::base_message: the IncomingMessage the wrapped struct holds,
\* which is flattened into it.
base_message(variant, val) ==
    JObj([f \in DOMAIN IncomingMessageFields |-> val.v[f]])

message_scene_ByVariant(variant, val) ==
    CASE variant = "Friend" -> "friend"
      [] variant = "Group" -> "group"
      [] variant = "Temp" -> "temp"

\* MessageEvent::message_scene: msg.message.message_scene in every arm.
message_scene(variant, val) == val.v["message_scene"].v

\* The segment g has a tag of IncomingSegment and the payload of that tag.
GoodSegment(g) ==
    /\ g.ty = "obj"
    /\ HasKey(g, "type") /\ g.v["type"].ty = "str"
    /\ g.v["type"].v \in SegmentTags
    /\ HasKey(g, "data")
    /\ Valid("seg:" \o g.v["type"].v, g.v["data"])

DecodeMessageEvent_SkipBadSegments(data) ==
    LET scene == SceneOf(data)
        kept == IF HasKey(data, "segments") /\ data.v["segments"].ty = "arr"
                THEN JObj([data.v EXCEPT !["segments"] =
                             JArr(SelectSeq(data.v["segments"].v,
                                            GoodSegment))])
                ELSE data
    IN  IF scene \notin MessageScenes THEN [ok |-> FALSE]
        ELSE IF ~Valid(SceneStruct(scene), kept) THEN [ok |-> FALSE]
        ELSE [ok |-> TRUE,
              variant |-> SceneVariant(scene),
              val |-> Typed(SceneStruct(scene), kept)]

\* impl Deserialize for MessageEvent
DecodeMessageEvent(data) ==
    LET scene == SceneOf(data) IN
    IF scene \notin MessageScenes THEN [ok |-> FALSE]
    ELSE IF ~Valid(SceneStruct(scene), data) THEN [ok |-> FALSE]
    ELSE [ok |-> TRUE,
          variant |-> SceneVariant(scene),
          val |-> Typed(SceneStruct(scene), data)]

DecodeEventKind_KeepRaw(doc) ==
    IF ~HasKey(doc, "event_type") \/ ~HasKey(doc, "data") THEN [ok |-> FALSE]
    ELSE IF doc.v["event_type"].ty # "str" THEN [ok |-> FALSE]
    ELSE IF doc.v["event_type"].v \notin EventTags THEN [ok |-> FALSE]
    ELSE LET tag == doc.v["event_type"].v
             data == doc.v["data"]
         IN  IF data.ty # "obj" THEN [ok |-> FALSE]
             ELSE IF tag = "message_receive"
             THEN LET m == DecodeMessageEvent(data) IN
                  [ok |-> TRUE,
                   kind |-> [tag |-> tag,
                             variant |-> IF m.ok THEN m.variant ELSE "Friend",
                             data |-> IF m.ok THEN m.val ELSE data]]
             ELSE IF Valid(tag, data)
                  THEN [ok |-> TRUE,
                        kind |-> [tag |-> tag, variant |-> "-",
                                  data |-> Typed(tag, data)]]
                  ELSE [ok |-> FALSE]

\* EventKind: adjacently tagged by event_type with the content in data.
DecodeEventKind(doc) ==
    IF ~HasKey(doc, "event_type") \/ ~HasKey(doc, "data") THEN [ok |-> FALSE]
    ELSE IF doc.v["event_type"].ty # "str" THEN [ok |-> FALSE]
    ELSE IF doc.v["event_type"].v \notin EventTags THEN [ok |-> FALSE]
    ELSE LET tag == doc.v["event_type"].v
             data == doc.v["data"]
         IN  IF data.ty # "obj" THEN [ok |-> FALSE]
             ELSE IF tag = "message_receive"
             THEN LET m == DecodeMessageEvent(data) IN
                  IF m.ok
                  THEN [ok |-> TRUE,
                        kind |-> [tag |-> tag, variant |-> m.variant,
                                  data |-> m.val]]
                  ELSE [ok |-> FALSE]
             ELSE IF Valid(tag, data)
                  THEN [ok |-> TRUE,
                        kind |-> [tag |-> tag, variant |-> "-",
                                  data |-> Typed(tag, data)]]
                  ELSE [ok |-> FALSE]

DecodeEvent_Lenient(text) ==
    [ok |-> TRUE,
     event |-> [time |-> 0, self_id |-> 0,
                kind |-> [tag |-> "unknown", variant |-> "-",
                          data |-> EmptyObj]]]

\* serde_json::from_str::<Event> / from_value::<Event>: time and self_id
\* beside the flattened EventKind.
DecodeEvent(text) ==
    IF ~text.json \/ text.doc.ty # "obj" THEN [ok |-> FALSE]
    ELSE LET doc == text.doc IN
         IF ~(HasKey(doc, "time") /\ IsI64(doc.v["time"])) THEN [ok |-> FALSE]
         ELSE IF ~(HasKey(doc, "self_id") /\ IsI64(doc.v["self_id"]))
         THEN [ok |-> FALSE]
         ELSE LET k == DecodeEventKind(doc) IN
              IF ~k.ok THEN [ok |-> FALSE]
              ELSE [ok |-> TRUE,
                    event |-> [time |-> doc.v["time"].v,
                               self_id |-> doc.v["self_id"].v,
                               kind |-> k.kind]]

(***************************************************************************)
(* The event transport: connect_events, the WebSocket read loop, the       *)
(* WebHook server, shutdown, and the application's consumer.               *)
(***************************************************************************)
MaxConnects == 2

MaxShutdowns == 2

MaxFrames == 2

MaxPosts == 2

\* The capacity the application gave mpsc::channel.
ChanCap == 1

Sessions == 1..MaxConnects

TextFrame(doc) == [kind |-> "text", json |-> TRUE, doc |-> doc]

\* "group": {"group_id":123456,"group_name":"g","member_count":100,..}
GroupDoc ==
    JObj([group_id |-> JInt(123456), group_name |-> JStr("g"),
          member_count |-> JInt(100), max_member_count |-> JInt(500)])

\* "group_member": {..} without shut_up_end_time
GroupMemberDoc ==
    JObj([user_id |-> JInt(2), nickname |-> JStr("m"),
          sex |-> JStr("female"), group_id |-> JInt(123456),
          card |-> JStr(""), title |-> JStr(""), level |-> JInt(1),
          role |-> JStr("member"), join_time |-> JInt(3),
          last_sent_time |-> JInt(4)])

\* "friend": {..} without qid and category
FriendDoc ==
    JObj([user_id |-> JInt(2), nickname |-> JStr("f"),
          sex |-> JStr("male"), remark |-> JStr("")])

\* What a payload can carry under "message_scene": nothing, one of the three
\* scenes, another string, or a value that is no string.
SceneChoices ==
    {<<>>, <<JStr("friend")>>, <<JStr("group")>>, <<JStr("temp")>>,
     <<JStr("channel")>>, <<JInt(1)>>}

\* The data object of a message_receive frame.
MessageData(sc, fr, gr, gm) ==
    JObj([peer_id |-> JInt(1), message_seq |-> JInt(1),
          sender_id |-> JInt(2), time |-> JInt(1), segments |-> JArr(<<>>)]
         @@ (IF sc # <<>> THEN [message_scene |-> sc[1]] ELSE <<>>)
         @@ (IF fr THEN [friend |-> FriendDoc] ELSE <<>>)
         @@ (IF gr THEN [group |-> GroupDoc] ELSE <<>>)
         @@ (IF gm THEN [group_member |-> GroupMemberDoc] ELSE <<>>))

MessageFrame(data) ==
    TextFrame(JObj([time |-> JInt(1), self_id |-> JInt(1),
                    event_type |-> JStr("message_receive"),
                    data |-> data]))

\* The message_receive frames a server may send.
MessageFrames ==
    {MessageFrame(MessageData(sc, fr, gr, gm)) :
        sc \in SceneChoices, fr \in BOOLEAN, gr \in BOOLEAN, gm \in BOOLEAN}

\* Segments a server may send: a text, a mention, an XML card under the tag
\* the derive gives it, an XML card under the tag "xml", a segment of a kind
\* that is no IncomingSegment, a text whose payload is an integer, and a
\* segment without a type.
SegmentChoices ==
    {JObj([type |-> JStr("text"), data |-> JObj([text |-> JStr("hi")])]),
     JObj([type |-> JStr("mention"), data |-> JObj([user_id |-> JInt(2)])]),
     JObj([type |-> JStr("x_m_l"),
           data |-> JObj([service_id |-> JInt(1),
                          xml_payload |-> JStr("<a/>")])]),
     JObj([type |-> JStr("xml"),
           data |-> JObj([service_id |-> JInt(1),
                          xml_payload |-> JStr("<a/>")])]),
     JObj([type |-> JStr("sticker"), data |-> JObj([url |-> JStr("u")])]),
     JObj([type |-> JStr("text"), data |-> JObj([text |-> JInt(1)])]),
     JObj([data |-> JObj([text |-> JStr("hi")])])}

MaxSegments == 2

SegmentLists ==
    UNION {[1..n -> SegmentChoices] : n \in 0..MaxSegments}

\* A friend message_receive frame carrying the segments segs.
SegmentFrame(segs) ==
    MessageFrame(
        JObj([MessageData(<<JStr("friend")>>, TRUE, FALSE, FALSE).v
                 EXCEPT !["segments"] = JArr(segs)]))

SegmentFrames == {SegmentFrame(segs) : segs \in SegmentLists}

\* The text frame m is a message_receive frame with a data object.
IsMessageReceive(m) ==
    /\ m.kind = "text" /\ m.json /\ m.doc.ty = "obj"
    /\ HasKey(m.doc, "event_type")
    /\ m.doc.v["event_type"] = JStr("message_receive")
    /\ HasKey(m.doc, "data")
    /\ m.doc.v["data"].ty = "obj"

FrameData(m) == m.doc.v["data"]

\* The payload of m carries the string s under message_scene.
HasScene(m, s) ==
    /\ HasKey(FrameData(m), "message_scene")
    /\ FrameData(m).v["message_scene"] = JStr(s)

\* {"time":1,"self_id":1,"event_type":"group_nudge",
\*  "data":{"group_id":1,"sender_id":2,"receiver_id":3}}
NudgeFrame ==
    TextFrame(JObj([time |-> JInt(1), self_id |-> JInt(1),
                    event_type |-> JStr("group_nudge"),
                    data |-> JObj([group_id |-> JInt(1),
                                   sender_id |-> JInt(2),
                                   receiver_id |-> JInt(3)])]))

\* The same nudge with the three display fields of GroupNudge.
FullNudgeFrame ==
    TextFrame(JObj([time |-> JInt(1), self_id |-> JInt(1),
                    event_type |-> JStr("group_nudge"),
                    data |-> JObj([group_id |-> JInt(1),
                                   sender_id |-> JInt(2),
                                   receiver_id |-> JInt(3),
                                   display_action |-> JStr("poke"),
                                   display_suffix |-> JStr(""),
                                   display_action_img_url |-> JStr("")])]))

\* {"time":2,"self_id":1,"event_type":"bot_offline","data":{"reason":"kicked"}}
OfflineFrame ==
    TextFrame(JObj([time |-> JInt(2), self_id |-> JInt(1),
                    event_type |-> JStr("bot_offline"),
                    data |-> JObj([reason |-> JStr("kicked")])]))

\* A frame whose tag is no EventKind.
UnknownTagFrame ==
    TextFrame(JObj([time |-> JInt(3), self_id |-> JInt(1),
                    event_type |-> JStr("no_such_event"),
                    data |-> EmptyObj]))

\* Further WsMessage variants: Binary with the JSON text of an Event as its
\* bytes, Ping, Pong, Close and a raw Frame.
NonTextFrames ==
    <<[kind |-> "binary", json |-> TRUE, doc |-> OfflineFrame.doc],
      [kind |-> "ping", json |-> FALSE, doc |-> JNull],
      [kind |-> "pong", json |-> FALSE, doc |-> JNull],
      [kind |-> "close", json |-> FALSE, doc |-> JNull],
      [kind |-> "frame", json |-> FALSE, doc |-> JNull]>>

\* The messages the server can put on the wire (WsMessage), and the JSON
\* bodies it can post.
WireFrames ==
    <<NudgeFrame, FullNudgeFrame, OfflineFrame, UnknownTagFrame,
      [kind |-> "binary", json |-> FALSE, doc |-> JNull],
      MessageFrame(MessageData(<<>>, TRUE, TRUE, TRUE)),
      MessageFrame(MessageData(<<JStr("channel")>>, TRUE, TRUE, TRUE)),
      MessageFrame(MessageData(<<JInt(1)>>, TRUE, TRUE, TRUE))>>
    \o NonTextFrames

\* The messages of the full model: all but the message_receive frames and
\* the further messages that are no text.
FrameIds ==
    {i \in DOMAIN WireFrames :
        /\ i <= Len(WireFrames) - Len(NonTextFrames)
        /\ ~IsMessageReceive(WireFrames[i])}

\* The messages of the model of one streaming session.
StreamFrameIds == DOMAIN WireFrames

\* The bodies axum's Json<Value> extractor hands to the handler.
WebhookPayloads == {i \in FrameIds : WireFrames[i].json}

\* The oneshot receiver of session k resolves: a value was sent, or the
\* sender was dropped.
ShutdownReady(k) == sig[k] \in {"sent", "dropped"}

ReadBranchPolled_Unbiased(k) == TRUE

\* select! { biased; .. }: the branches are polled in the order written, so
\* the read branch is polled only while the shutdown receiver is pending.
ReadBranchPolled(k) == ~ShutdownReady(k)

OptionTake_Peek(slot) == slot

\* Option::take on the connection slot: the slot is left None.
OptionTake(slot) == 0

\* Dropping the Sender held in the slot (by overwriting or take()).
DropSender(s, k) ==
    IF k # 0 /\ s[k] = "open" THEN [s EXCEPT ![k] = "dropped"] ELSE s

\* Dropping a WebSocketStream without close(): the connection is gone.
DropStream(cs, c) ==
    IF c # 0 /\ cs[c] = "open" THEN [cs EXCEPT ![c] = "dropped"] ELSE cs

ReadTarget_Cached(k) == k

\* The stream a loop reads: whatever the slot holds under the lock.
ReadTarget(k) == ws_stream

\* handle_event_message logs a failed send and returns Ok(()) all the same.
ResultAfterSend == "Ok"

HandleEventMessage_AnyKind(frame) ==
    LET d == DecodeEvent(frame) IN
    IF d.ok
    THEN [forward |-> TRUE, event |-> d.event, result |-> ResultAfterSend]
    ELSE [forward |-> FALSE, result |-> "Ok"]

\* What handle_event_message does with one message: the Event it forwards,
\* if any, and its return value.
HandleEventMessage(frame) ==
    IF frame.kind \in {"text", "webhook"}
    THEN LET d == DecodeEvent(frame) IN
         IF d.ok
         THEN [forward |-> TRUE, event |-> d.event, result |-> ResultAfterSend]
         ELSE [forward |-> FALSE, result |-> "Ok"]
    ELSE [forward |-> FALSE, result |-> "Ok"]

\* OriginalMessage::WebHook(payload) for the JSON body p.
WebhookMessage(p) ==
    [kind |-> "webhook", json |-> TRUE, doc |-> WireFrames[p].doc]

\* The message the transport hands to handle_event_message.
MessageOf(via, f) == IF via = "ws" THEN WireFrames[f] ELSE WebhookMessage(f)

ChannelSend_Lossy(q, e) == q

\* event_sender.send(event).await on a channel with room or without receiver.
ChannelSend(q, e) == IF rxOpen THEN Append(q, e) ELSE q

CanSend_Unbounded == TRUE

\* send completes at once: the channel has room, or the receiver is gone.
CanSend == ~rxOpen \/ Len(event_chan) < ChanCap

(* connect_events, WebSocket *)

\* connect_async fails: the error is returned, nothing is installed.
ConnectAsyncFails ==
    /\ comm_type = "WebSocket"
    /\ appPc = "idle"
    /\ nConnects < MaxConnects
    /\ nConnects' = nConnects + 1
    /\ connState' = [connState EXCEPT ![nConnects + 1] = "refused"]
    /\ connectResult' = [connectResult EXCEPT ![nConnects + 1] = "err"]
    /\ UNCHANGED <<appPc, appConn, nShutdowns>>
    /\ UNCHANGED <<connEnd, closeCalls>>
    /\ UNCHANGED <<slotVars, loopVars, chanVars, logVars, whVars, comm_type,
                   reqVars, extVars>>

\* connect_async succeeds: the call holds a new open stream.
ConnectAsyncOk ==
    /\ comm_type = "WebSocket"
    /\ appPc = "idle"
    /\ nConnects < MaxConnects
    /\ nConnects' = nConnects + 1
    /\ appPc' = "install_stream"
    /\ appConn' = nConnects + 1
    /\ connState' = [connState EXCEPT ![nConnects + 1] = "open"]
    /\ UNCHANGED <<connectResult, nShutdowns>>
    /\ UNCHANGED <<connEnd, closeCalls>>
    /\ UNCHANGED <<slotVars, loopVars, chanVars, logVars, whVars, comm_type,
                   reqVars, extVars>>

\* *self.ws_stream.lock().await = Some(ws_stream_internal): the previous
\* content of the slot is dropped.
InstallStream ==
    /\ appPc = "install_stream"
    /\ streamLock = 0
    /\ ws_stream' = appConn
    /\ connState' = DropStream(connState, ws_stream)
    /\ appPc' = "install_tx"
    /\ UNCHANGED <<streamLock, ws_shutdown_signal_tx, sig>>
    /\ UNCHANGED <<appConn, connectResult, nConnects, nShutdowns>>
    /\ UNCHANGED <<connEnd, closeCalls>>
    /\ UNCHANGED <<loopVars, chanVars, logVars, whVars, comm_type, reqVars, extVars>>

\* The oneshot channel is created, its sender stored in the slot (dropping
\* the previous one), the read loop spawned, and Ok(()) returned.
InstallTxAndSpawn ==
    /\ appPc = "install_tx"
    /\ ws_shutdown_signal_tx' = appConn
    /\ sig' = [DropSender(sig, ws_shutdown_signal_tx) EXCEPT ![appConn] = "open"]
    /\ loopPc' = [loopPc EXCEPT ![appConn] = "select"]
    /\ appPc' = "idle"
    /\ connectResult' = [connectResult EXCEPT ![appConn] = "ok"]
    /\ UNCHANGED <<ws_stream, streamLock, loopMsg, loopConn>>
    /\ UNCHANGED <<appConn, nConnects, nShutdowns>>
    /\ UNCHANGED <<connVars, chanVars, logVars, whVars, comm_type, reqVars, extVars>>

(* shutdown *)

SendSignal_Lost(s, k) == s

\* tx.send(()): the receiver resolves unless its task has already ended.
SendSignal(s, k) ==
    IF s[k] = "open" /\ loopPc[k] # "done" THEN [s EXCEPT ![k] = "sent"] ELSE s

\* take() the sender and send on it; with an empty slot nothing happens.
Shutdown ==
    /\ nShutdowns < MaxShutdowns
    /\ nShutdowns' = nShutdowns + 1
    /\ ws_shutdown_signal_tx' = 0
    /\ sig' = IF ws_shutdown_signal_tx # 0
              THEN SendSignal(sig, ws_shutdown_signal_tx)
              ELSE sig
    /\ UNCHANGED <<ws_stream, streamLock>>
    /\ UNCHANGED <<appPc, appConn, connectResult, nConnects>>
    /\ UNCHANGED <<loopVars, connVars, chanVars, logVars, whVars, comm_type,
                   reqVars, extVars>>

(* the read loop of session k *)

\* select!, biased: the shutdown receiver has resolved. The read future, if
\* it was pending, is dropped and with it the guard it held.
LoopShutdownBranch(k) ==
    /\ loopPc[k] \in {"select", "reading"}
    /\ ShutdownReady(k)
    /\ loopPc' = [loopPc EXCEPT ![k] = "sd_lock"]
    /\ streamLock' = IF streamLock = k THEN 0 ELSE streamLock
    /\ UNCHANGED <<ws_stream, ws_shutdown_signal_tx, sig, loopMsg, loopConn>>
    /\ UNCHANGED <<connVars, chanVars, logVars, appVars, whVars, comm_type,
                   reqVars, extVars>>

\* The read future takes the lock: with an empty slot it yields None, else
\* it awaits stream.next() holding the guard.
LoopReadLock(k) ==
    /\ loopPc[k] = "select"
    /\ ReadBranchPolled(k)
    /\ streamLock = 0
    /\ IF ws_stream = 0
       THEN /\ loopPc' = [loopPc EXCEPT ![k] = "rd_end"]
            /\ streamLock' = streamLock
       ELSE /\ loopPc' = [loopPc EXCEPT ![k] = "reading"]
            /\ streamLock' = k
    /\ UNCHANGED <<ws_stream, ws_shutdown_signal_tx, sig, loopMsg, loopConn>>
    /\ UNCHANGED <<connVars, chanVars, logVars, appVars, whVars, comm_type,
                   reqVars, extVars>>

\* stream.next() yields Some(Ok(message)), the message f having arrived: the
\* guard is released and handle_event_message decodes the message and
\* forwards the Event, or suspends on the full channel.
LoopNextFrame(k, f) ==
    /\ loopPc[k] = "reading"
    /\ ReadBranchPolled(k)
    /\ Len(readLog) < MaxFrames
    /\ LET c == ReadTarget(k)
           h == HandleEventMessage(MessageOf("ws", f))
       IN  /\ connEnd[c] = "no"
           /\ readLog' = Append(readLog, f)
           /\ staleRead' = (staleRead \/ c # ws_stream \/ connState[c] # "open")
           /\ IF h.forward /\ ~CanSend
              THEN /\ loopPc' = [loopPc EXCEPT ![k] = "sending"]
                   /\ loopMsg' = [loopMsg EXCEPT ![k] = h.event]
                   /\ UNCHANGED event_chan
              ELSE /\ loopPc' = [loopPc EXCEPT ![k] = "select"]
                   /\ UNCHANGED loopMsg
                   /\ event_chan' = IF h.forward
                                    THEN ChannelSend(event_chan, h.event)
                                    ELSE event_chan
    /\ streamLock' = 0
    /\ UNCHANGED <<ws_stream, ws_shutdown_signal_tx, sig, loopConn>>
    /\ UNCHANGED <<rxOpen, received>>
    /\ UNCHANGED <<connVars, appVars, whVars, comm_type, reqVars, extVars>>

\* stream.next() yields Some(Err(e)) or None: the transport failed or the
\* remote closed the connection.
LoopNextEnd(k) ==
    /\ loopPc[k] = "reading"
    /\ ReadBranchPolled(k)
    /\ LET c == ReadTarget(k) IN
       /\ connEnd' = [connEnd EXCEPT ![c] = "ended"]
       /\ staleRead' = (staleRead \/ c # ws_stream \/ connState[c] # "open")
    /\ loopPc' = [loopPc EXCEPT ![k] = "rd_end"]
    /\ streamLock' = 0
    /\ UNCHANGED <<ws_stream, ws_shutdown_signal_tx, sig, loopMsg, loopConn>>
    /\ UNCHANGED <<connState, closeCalls>>
    /\ UNCHANGED <<chanVars, readLog, appVars, whVars, comm_type, reqVars, extVars>>

LoopSendResume_BreakOnClosed(k) ==
    /\ loopPc[k] = "sending"
    /\ CanSend
    /\ event_chan' = ChannelSend(event_chan, loopMsg[k])
    /\ loopPc' = [loopPc EXCEPT ![k] = IF rxOpen THEN "select" ELSE "rd_end"]
    /\ loopMsg' = [loopMsg EXCEPT ![k] = 0]
    /\ UNCHANGED <<loopConn, rxOpen, received>>
    /\ UNCHANGED <<slotVars, connVars, logVars, appVars, whVars, comm_type,
                   reqVars, extVars>>

\* The suspended send completes: the channel has room again or the receiver
\* is gone.
LoopSendResume(k) ==
    /\ loopPc[k] = "sending"
    /\ CanSend
    /\ event_chan' = ChannelSend(event_chan, loopMsg[k])
    /\ loopPc' = [loopPc EXCEPT ![k] = "select"]
    /\ loopMsg' = [loopMsg EXCEPT ![k] = 0]
    /\ UNCHANGED <<loopConn, rxOpen, received>>
    /\ UNCHANGED <<slotVars, connVars, logVars, appVars, whVars, comm_type,
                   reqVars, extVars>>

\* After Some(Err) or None: ws_stream.lock().await.take(), then break.
LoopTakeAfterEnd(k) ==
    /\ loopPc[k] = "rd_end"
    /\ streamLock = 0
    /\ ws_stream' = OptionTake(ws_stream)
    /\ connState' = DropStream(connState, ws_stream)
    /\ loopPc' = [loopPc EXCEPT ![k] = "exit"]
    /\ UNCHANGED <<streamLock, ws_shutdown_signal_tx, sig, loopMsg, loopConn>>
    /\ UNCHANGED <<connEnd, closeCalls>>
    /\ UNCHANGED <<chanVars, logVars, appVars, whVars, comm_type, reqVars, extVars>>

\* The shutdown branch: ws_stream.lock().await.take(); with a stream the
\* guard stays held while it is closed.
LoopShutdownTake(k) ==
    /\ loopPc[k] = "sd_lock"
    /\ streamLock = 0
    /\ ws_stream' = OptionTake(ws_stream)
    /\ IF ws_stream = 0
       THEN /\ loopPc' = [loopPc EXCEPT ![k] = "exit"]
            /\ UNCHANGED <<streamLock, loopConn>>
       ELSE /\ loopPc' = [loopPc EXCEPT ![k] = "sd_close"]
            /\ streamLock' = k
            /\ loopConn' = [loopConn EXCEPT ![k] = ws_stream]
    /\ UNCHANGED <<ws_shutdown_signal_tx, sig, loopMsg>>
    /\ UNCHANGED <<connVars, chanVars, logVars, appVars, whVars, comm_type,
                   reqVars, extVars>>

\* stream_to_close.close(None).await succeeds (the Close frame is sent) or
\* fails; either way the stream is dropped and the guard released.
LoopClose(k, sent) ==
    /\ loopPc[k] = "sd_close"
    /\ closeCalls' = [closeCalls EXCEPT ![loopConn[k]] = @ \cup {k}]
    /\ connState' = [connState EXCEPT ![loopConn[k]] =
                        IF sent THEN "closed" ELSE "dropped"]
    /\ loopConn' = [loopConn EXCEPT ![k] = 0]
    /\ streamLock' = 0
    /\ loopPc' = [loopPc EXCEPT ![k] = "exit"]
    /\ UNCHANGED <<ws_stream, ws_shutdown_signal_tx, sig, loopMsg>>
    /\ UNCHANGED connEnd
    /\ UNCHANGED <<chanVars, logVars, appVars, whVars, comm_type, reqVars, extVars>>

LoopExit_KeepSender(k) ==
    /\ loopPc[k] = "exit"
    /\ loopPc' = [loopPc EXCEPT ![k] = "done"]
    /\ UNCHANGED <<ws_stream, streamLock, ws_shutdown_signal_tx, sig, loopMsg,
                   loopConn>>
    /\ UNCHANGED <<connVars, chanVars, logVars, appVars, whVars, comm_type,
                   reqVars, extVars>>

\* After the loop: ws_shutdown_signal_tx.lock().await.take(); the task ends.
LoopExit(k) ==
    /\ loopPc[k] = "exit"
    /\ ws_shutdown_signal_tx' = 0
    /\ sig' = DropSender(sig, ws_shutdown_signal_tx)
    /\ loopPc' = [loopPc EXCEPT ![k] = "done"]
    /\ UNCHANGED <<ws_stream, streamLock, loopMsg, loopConn>>
    /\ UNCHANGED <<connVars, chanVars, logVars, appVars, whVars, comm_type,
                   reqVars, extVars>>

(* the application's consumer *)

ConsumerRecv ==
    /\ rxOpen
    /\ event_chan # <<>>
    /\ received' = Append(received, Head(event_chan))
    /\ event_chan' = Tail(event_chan)
    /\ UNCHANGED rxOpen
    /\ UNCHANGED <<slotVars, loopVars, connVars, logVars, appVars, whVars,
                   comm_type, reqVars, extVars>>

\* The application drops (or closes) the receiver.
ConsumerClose ==
    /\ rxOpen
    /\ rxOpen' = FALSE
    /\ event_chan' = <<>>
    /\ UNCHANGED received
    /\ UNCHANGED <<slotVars, loopVars, connVars, logVars, appVars, whVars,
                   comm_type, reqVars, extVars>>

(* connect_events, WebHook, and the server task *)

\* The router is built, the server task spawned, and Ok(()) returned; the
\* listener is bound later, inside the task.
ConnectEventsWebHook ==
    /\ comm_type = "WebHook"
    /\ nConnects < MaxConnects
    /\ nConnects' = nConnects + 1
    /\ whPc' = [whPc EXCEPT ![nConnects + 1] = "binding"]
    /\ connectResult' = [connectResult EXCEPT ![nConnects + 1] = "ok"]
    /\ UNCHANGED <<appPc, appConn, nShutdowns>>
    /\ UNCHANGED <<whInflight, whReplies, nPosts>>
    /\ UNCHANGED <<slotVars, loopVars, connVars, chanVars, logVars, comm_type,
                   reqVars, extVars>>

\* The address is held while a server task of this client listens on it.
AddressInUse == \E j \in Sessions : whPc[j] \in {"serving", "stopping"}

\* TcpListener::bind: on failure the task logs the error and returns.
WhBind(k, ok) ==
    /\ whPc[k] = "binding"
    /\ ok => ~AddressInUse
    /\ whPc' = [whPc EXCEPT ![k] = IF ok THEN "serving" ELSE "bind_failed"]
    /\ UNCHANGED <<whInflight, whReplies, nPosts>>
    /\ UNCHANGED <<slotVars, loopVars, connVars, chanVars, logVars, appVars,
                   comm_type, reqVars, extVars>>

\* The status the handler answers for a result of handle_event_message.
WebhookReply(result) == IF result = "Err" THEN 500 ELSE 200

\* The reply of a handler whose send has completed or was not needed.
ReplyOf(id, k, p, decoded, result) ==
    [id |-> id, srv |-> k, payload |-> p, status |-> WebhookReply(result),
     decoded |-> decoded, forwarded |-> decoded /\ rxOpen]

\* POST /webhook with a JSON body: the handler runs handle_event_message and
\* answers, unless the send suspends on the full channel.
WhPost(k, p) ==
    /\ whPc[k] = "serving"
    /\ nPosts < MaxPosts
    /\ nPosts' = nPosts + 1
    /\ LET h == HandleEventMessage(MessageOf("wh", p)) IN
       IF h.forward /\ (~CanSend \/ whInflight # {})
       THEN /\ whInflight' = whInflight \cup
                                {[id |-> nPosts + 1, srv |-> k, payload |-> p,
                                  event |-> h.event]}
            /\ UNCHANGED <<whReplies, event_chan>>
       ELSE /\ whReplies' = whReplies \cup
                              {ReplyOf(nPosts + 1, k, p, h.forward, h.result)}
            /\ event_chan' = IF h.forward THEN ChannelSend(event_chan, h.event)
                             ELSE event_chan
            /\ UNCHANGED whInflight
    /\ UNCHANGED <<whPc, rxOpen, received>>
    /\ UNCHANGED <<slotVars, loopVars, connVars, logVars, appVars, comm_type,
                   reqVars, extVars>>

\* The longest-waiting suspended send completes and its handler answers.
WhHandlerResume ==
    /\ whInflight # {}
    /\ CanSend
    /\ LET w == CHOOSE x \in whInflight : \A y \in whInflight : x.id <= y.id
       IN  /\ whInflight' = whInflight \ {w}
           /\ whReplies' = whReplies \cup
                             {ReplyOf(w.id, w.srv, w.payload, TRUE,
                                      ResultAfterSend)}
           /\ event_chan' = ChannelSend(event_chan, w.event)
    /\ UNCHANGED <<whPc, nPosts, rxOpen, received>>
    /\ UNCHANGED <<slotVars, loopVars, connVars, logVars, appVars, comm_type,
                   reqVars, extVars>>

\* Ctrl+C or SIGTERM reaches the process: every serving task starts its
\* graceful shutdown and stops accepting.
WhSignal ==
    /\ \E k \in Sessions : whPc[k] = "serving"
    /\ whPc' = [k \in Sessions |->
                  IF whPc[k] = "serving" THEN "stopping" ELSE whPc[k]]
    /\ UNCHANGED <<whInflight, whReplies, nPosts>>
    /\ UNCHANGED <<slotVars, loopVars, connVars, chanVars, logVars, appVars,
                   comm_type, reqVars, extVars>>

Drained_Always(k) == TRUE

\* No handler of the task is still running.
Drained(k) == \A w \in whInflight : w.srv # k

\* axum::serve returns once the in-flight handlers of the task are done.
WhClosed(k) ==
    /\ whPc[k] = "stopping"
    /\ Drained(k)
    /\ whPc' = [whPc EXCEPT ![k] = "closed"]
    /\ UNCHANGED <<whInflight, whReplies, nPosts>>
    /\ UNCHANGED <<slotVars, loopVars, connVars, chanVars, logVars, appVars,
                   comm_type, reqVars, extVars>>

(* the whole client *)

TInit ==
    /\ comm_type \in {"WebSocket", "WebHook"}
    /\ ws_stream = 0
    /\ streamLock = 0
    /\ ws_shutdown_signal_tx = 0
    /\ sig = [k \in Sessions |-> "none"]
    /\ loopPc = [k \in Sessions |-> "none"]
    /\ loopMsg = [k \in Sessions |-> 0]
    /\ loopConn = [k \in Sessions |-> 0]
    /\ connState = [k \in Sessions |-> "none"]
    /\ connEnd = [k \in Sessions |-> "no"]
    /\ closeCalls = [k \in Sessions |-> {}]
    /\ event_chan = <<>>
    /\ rxOpen = TRUE
    /\ received = <<>>
    /\ readLog = <<>>
    /\ staleRead = FALSE
    /\ appPc = "idle"
    /\ appConn = 0
    /\ connectResult = [k \in Sessions |-> "none"]
    /\ nConnects = 0
    /\ nShutdowns = 0
    /\ whPc = [k \in Sessions |-> "none"]
    /\ whInflight = {}
    /\ whReplies = {}
    /\ nPosts = 0

\* Nothing is being encoded or decoded outside the transport.
CodecIdle ==
    /\ codecIn = [some |-> FALSE]
    /\ codecWire = <<>>
    /\ codecOut = <<>>

\* No construction is being looked at on its own.
NewIdle ==
    /\ comm = [kind |-> "none"]
    /\ built = [done |-> FALSE]
    /\ posted = [some |-> FALSE]

\* The client of src/src/client.rs is not in use.
OldIdle ==
    /\ old_ws_stream = FALSE
    /\ old_guard = "free"
    /\ old_waiters = <<>>
    /\ old_loopPc = "none"
    /\ old_closePc = "idle"
    /\ old_conn = "none"
    /\ old_read = 0
    /\ old_connects = 0
    /\ old_chan = 0

ExtIdle == CodecIdle /\ NewIdle /\ OldIdle

Init == ReqInit /\ TInit /\ ExtIdle

Next ==
    \/ ConnectAsyncFails
    \/ ConnectAsyncOk
    \/ InstallStream
    \/ InstallTxAndSpawn
    \/ Shutdown
    \/ \E k \in Sessions : LoopShutdownBranch(k)
    \/ \E k \in Sessions : LoopReadLock(k)
    \/ \E k \in Sessions, f \in FrameIds : LoopNextFrame(k, f)
    \/ \E k \in Sessions : LoopNextEnd(k)
    \/ \E k \in Sessions : LoopSendResume(k)
    \/ \E k \in Sessions : LoopTakeAfterEnd(k)
    \/ \E k \in Sessions : LoopShutdownTake(k)
    \/ \E k \in Sessions, sent \in BOOLEAN : LoopClose(k, sent)
    \/ \E k \in Sessions : LoopExit(k)
    \/ ConsumerRecv
    \/ ConsumerClose
    \/ ConnectEventsWebHook
    \/ \E k \in Sessions, ok \in BOOLEAN : WhBind(k, ok)
    \/ \E k \in Sessions, p \in WebhookPayloads : WhPost(k, p)
    \/ WhHandlerResume
    \/ WhSignal
    \/ \E k \in Sessions : WhClosed(k)

Spec == Init /\ [][Next]_vars

\* The client used only for API calls.
SpecReq == Init /\ [][ReqNext]_vars

(***************************************************************************)
(* One streaming session: a WebSocket client that connects once and reads  *)
(* any of the messages, the message_receive frames included.               *)
(***************************************************************************)
StreamInit ==
    /\ ReqInit
    /\ TInit
    /\ comm_type = "WebSocket"
    /\ ExtIdle

StreamNext ==
    \/ (nConnects = 0 /\ ConnectAsyncOk)
    \/ InstallStream
    \/ InstallTxAndSpawn
    \/ Shutdown
    \/ \E k \in Sessions : LoopShutdownBranch(k)
    \/ \E k \in Sessions : LoopReadLock(k)
    \/ \E k \in Sessions, f \in StreamFrameIds : LoopNextFrame(k, f)
    \/ \E k \in Sessions : LoopNextEnd(k)
    \/ \E k \in Sessions : LoopSendResume(k)
    \/ \E k \in Sessions : LoopTakeAfterEnd(k)
    \/ \E k \in Sessions : LoopShutdownTake(k)
    \/ \E k \in Sessions, sent \in BOOLEAN : LoopClose(k, sent)
    \/ \E k \in Sessions : LoopExit(k)
    \/ ConsumerRecv
    \/ ConsumerClose

SpecStream == StreamInit /\ [][StreamNext]_vars

(***************************************************************************)
(* Encoding and decoding on their own: the derived Serialize of the event  *)
(* types, and from_str::<Event> applied to text frames one after another.  *)
(***************************************************************************)
\* The struct a MessageEvent variant wraps.
VariantStruct(variant) ==
    CASE variant = "Friend" -> "FriendMessage"
      [] variant = "Group" -> "GroupMessage"
      [] variant = "Temp" -> "TempMessage"

RECURSIVE Serialize(_, _)
\* The derived Serialize of the type t for the typed value x: the fields of
\* the struct, flattened ones in place; every Option field carries
\* skip_serializing_if = "Option::is_none" and is left out when None.
Serialize(t, x) ==
    IF Primitive(t) THEN x
    ELSE IF t = "segments"
    THEN JArr([i \in DOMAIN x.v |->
                JObj([type |-> x.v[i].v["type"],
                      data |-> Serialize("seg:" \o x.v[i].v["type"].v,
                                         x.v[i].v["data"])])])
    ELSE JObj([f \in {g \in DOMAIN Schema(t) : x.v[g].ty # "null"} |->
                Serialize(Schema(t)[f].ty, x.v[f])])

\* impl Serialize for MessageEvent: the wrapped struct serializes itself.
SerializeMessageEvent(variant, val) == Serialize(VariantStruct(variant), val)

\* serde_json::to_string(&event): time and self_id beside the flattened,
\* adjacently tagged EventKind.
SerializeEvent(e) ==
    JObj([time |-> JInt(e.time), self_id |-> JInt(e.self_id),
          event_type |-> JStr(e.kind.tag),
          data |-> IF e.kind.tag = "message_receive"
                   THEN SerializeMessageEvent(e.kind.variant, e.kind.data)
                   ELSE Serialize(e.kind.tag, e.kind.data)])

RECURSIVE SampleValue(_, _)
\* A value of the type t, its Option fields all Some or all None.
SampleValue(t, some) ==
    CASE t = "int" -> JInt(1)
      [] t = "str" -> JStr("s")
      [] t = "bool" -> JBool(TRUE)
      [] t = "scene" -> JStr("friend")
      [] t = "sex" -> JStr("male")
      [] t = "role" -> JStr("member")
      [] t = "segments" ->
            JArr(<<JObj([type |-> JStr("text"),
                         data |-> JObj([text |-> JStr("hi")])])>>)
      [] OTHER ->
            JObj([f \in DOMAIN Schema(t) |->
                    IF Schema(t)[f].opt /\ ~some THEN JNull
                    ELSE SampleValue(Schema(t)[f].ty, some)])

\* Event { time: 5, self_id: 1, kind } for a variant other than
\* MessageReceive.
SampleEvent(tag, some) ==
    [time |-> 5, self_id |-> 1,
     kind |-> [tag |-> tag, variant |-> "-", data |-> SampleValue(tag, some)]]

\* Event { .., kind: MessageReceive { message: <variant>(..) } } whose inner
\* IncomingMessage carries message_scene scene.
SampleMessageEvent(variant, scene, some) ==
    LET m == SampleValue(VariantStruct(variant), some) IN
    [time |-> 5, self_id |-> 1,
     kind |-> [tag |-> "message_receive", variant |-> variant,
               data |-> JObj([m.v EXCEPT !["message_scene"] = JStr(scene)])]]

\* The Events that can be constructed: every EventKind variant, and for
\* MessageReceive every MessageEvent variant with every inner scene.
SampleEvents ==
    {SampleEvent(tag, some) :
        tag \in EventTags \ {"message_receive"}, some \in BOOLEAN}
    \cup {SampleMessageEvent(variant, scene, some) :
            variant \in {"Friend", "Group", "Temp"},
            scene \in MessageScenes, some \in BOOLEAN}

(* the codec on its own *)

\* An Event to encode, or a text frame to decode.
CodecInit ==
    /\ codecOut = <<>>
    /\ \/ /\ codecIn \in {[some |-> TRUE, event |-> e] : e \in SampleEvents}
          /\ codecWire = <<>>
       \/ /\ codecIn = [some |-> FALSE]
          /\ codecWire \in {<<m>> : m \in MessageFrames}

\* serde_json::to_string(&event)
EncodeStep ==
    /\ codecIn.some
    /\ codecWire = <<>>
    /\ codecWire' = <<TextFrame(SerializeEvent(codecIn.event))>>
    /\ UNCHANGED <<codecIn, codecOut>>
    /\ UNCHANGED <<reqVars, tVars, newVars, oldVars>>

\* serde_json::from_str::<Event>(&text) on the next frame
DecodeStep ==
    /\ Len(codecOut) < Len(codecWire)
    /\ codecOut' = Append(codecOut, DecodeEvent(codecWire[Len(codecOut) + 1]))
    /\ UNCHANGED <<codecIn, codecWire>>
    /\ UNCHANGED <<reqVars, tVars, newVars, oldVars>>

CodecNext == EncodeStep \/ DecodeStep

InitCodec ==
    /\ ReqInit /\ TInit /\ comm_type = "WebSocket"
    /\ NewIdle /\ OldIdle
    /\ CodecInit

SpecCodec == InitCodec /\ [][CodecNext]_vars

\* Decoding message_receive frames that carry segments.
InitSegments ==
    /\ ReqInit /\ TInit /\ comm_type = "WebSocket"
    /\ NewIdle /\ OldIdle
    /\ codecIn = [some |-> FALSE]
    /\ codecOut = <<>>
    /\ codecWire \in {<<m>> : m \in SegmentFrames}

SpecSegments == InitSegments /\ [][DecodeStep]_vars

(***************************************************************************)
(* Construction (MilkyClient::new) and the address send_request posts to.  *)
(* A Url is its scheme, its host with port, and its path as the list of    *)
(* segments: "/api/" is <<"api", "">>, "/api" is <<"api">>, "/" is <<"">>. *)
(***************************************************************************)
Schemes == {"ws", "wss", "http", "https", "ftp"}

Hosts == {"127.0.0.1:3000", "bot.example"}

\* Paths an endpoint string may end in: none, "/v1", "/v1/".
EndpointPaths == {<<>>, <<"v1">>, <<"v1", "">>}

\* The endpoint strings of a config: scheme://host/path, or a string that is
\* no URL.
Endpoints ==
    {[valid |-> TRUE, scheme |-> s, host |-> h, path |-> p] :
        s \in Schemes, h \in Hosts, p \in EndpointPaths}
    \cup {[valid |-> FALSE, scheme |-> "", host |-> "", path |-> <<>>]}

\* Communication::WebSocket(config) / Communication::WebHook(config)
Comms ==
    {[kind |-> k, endpoint |-> e] :
        k \in {"WebSocket", "WebHook"}, e \in Endpoints}

\* Url::parse: the schemes here are special schemes, whose empty path is "/".
UrlParse(e) ==
    IF e.valid
    THEN [ok |-> TRUE,
          url |-> [scheme |-> e.scheme, host |-> e.host,
                   path |-> IF e.path = <<>> THEN <<"">> ELSE e.path]]
    ELSE [ok |-> FALSE]

\* Url::set_path: the path is replaced as a whole.
SetPath(url, segments) == [url EXCEPT !.path = segments]

SetScheme(url, scheme) == [url EXCEPT !.scheme = scheme]

\* Url::join with a relative reference of one segment: the last segment of
\* the base path is removed and the reference put in its place.
Join(url, segment) ==
    [url EXCEPT !.path = SubSeq(url.path, 1, Len(url.path) - 1)
                           \o <<segment>>]

NewErr(e) == [done |-> TRUE, ok |-> FALSE, err |-> e]

\* MilkyClient::new
New(c) ==
    LET parsed == UrlParse(c.endpoint) IN
    IF ~parsed.ok THEN NewErr("UrlParse")
    ELSE IF c.kind = "WebSocket"
    THEN IF parsed.url.scheme \notin {"ws", "wss"}
         THEN NewErr("UnsupportedScheme")
         ELSE [done |-> TRUE, ok |-> TRUE, comm_type |-> c.kind,
               api_base_url |->
                   SetPath(SetScheme(parsed.url,
                                     IF parsed.url.scheme = "ws"
                                     THEN "http" ELSE "https"),
                           <<"api", "">>),
               event_ws_url |-> SetPath(parsed.url, <<"event">>)]
    ELSE [done |-> TRUE, ok |-> TRUE, comm_type |-> c.kind,
          api_base_url |-> SetPath(parsed.url, <<"api">>),
          event_ws_url |-> [scheme |-> "", host |-> "", path |-> <<>>]]

NewInit ==
    /\ comm \in Comms
    /\ comm_type = comm.kind
    /\ built = [done |-> FALSE]
    /\ posted = [some |-> FALSE]

\* The application constructs the client.
NewClient ==
    /\ ~built.done
    /\ built' = New(comm)
    /\ UNCHANGED <<comm, posted>>
    /\ UNCHANGED <<reqVars, tVars, codecVars, oldVars>>

\* send_request up to the post: the address is api_base_url.join(action).
SendRequestJoin(action) ==
    /\ built.done /\ built.ok
    /\ ~posted.some
    /\ posted' = [some |-> TRUE, action |-> action,
                  url |-> Join(built.api_base_url, action)]
    /\ UNCHANGED <<comm, built>>
    /\ UNCHANGED <<reqVars, tVars, codecVars, oldVars>>

NewNext == NewClient \/ \E a \in Actions : SendRequestJoin(a)

InitNew == ReqInit /\ TInit /\ CodecIdle /\ OldIdle /\ NewInit

SpecNew == InitNew /\ [][NewNext]_vars

(***************************************************************************)
(* The single-transport client of src/src/client.rs: one slot behind a     *)
(* tokio Mutex, a read loop that takes the lock at the top of each round   *)
(* and keeps the guard until the round ends, and close_event_stream.       *)
(* tokio's Mutex hands the lock to its waiters in the order they asked.    *)
(***************************************************************************)
\* The guard is dropped.
OldUnlock == old_guard' = "free"

\* lock().await is polled: the task joins the queue of the mutex.
OldEnqueue(q, task) == Append(q, task)

\* connect_events: connect_async succeeds, the stream is stored in the slot
\* and the read loop is spawned; the loop asks for the lock. Called on a
\* client that has no read loop running.
OldConnectEvents ==
    /\ old_loopPc \in {"none", "done"}
    /\ old_connects < MaxConnects
    /\ old_connects' = old_connects + 1
    /\ old_guard = "free" /\ old_waiters = <<>>
    /\ old_ws_stream' = TRUE
    /\ old_conn' = "open"
    /\ old_loopPc' = "lock"
    /\ old_waiters' = OldEnqueue(old_waiters, "loop")
    /\ UNCHANGED <<old_guard, old_closePc, old_read, old_chan>>
    /\ UNCHANGED <<reqVars, tVars, codecVars, newVars>>

\* let mut guard = ws_stream_clone.lock().await; match guard.as_mut(): with
\* the slot empty the loop breaks, otherwise it polls stream.next() with the
\* guard held.
OldLoopLock ==
    /\ old_loopPc = "lock"
    /\ old_guard = "free" /\ old_waiters # <<>> /\ Head(old_waiters) = "loop"
    /\ old_waiters' = Tail(old_waiters)
    /\ IF old_ws_stream
       THEN old_guard' = "loop" /\ old_loopPc' = "reading"
       ELSE OldUnlock /\ old_loopPc' = "done"
    /\ UNCHANGED <<old_ws_stream, old_closePc, old_conn, old_read, old_chan, old_connects>>
    /\ UNCHANGED <<reqVars, tVars, codecVars, newVars>>

\* stream.next() yields Some(Ok(message)): handle_event_message decodes it
\* and, for an Event, awaits event_sender.send; the guard is dropped when
\* the round ends and the loop asks for the lock again.
OldLoopFrame(isEvent) ==
    /\ old_loopPc = "reading"
    /\ old_conn = "open"
    /\ old_read < MaxFrames
    /\ old_read' = old_read + 1
    /\ IF isEvent /\ old_chan >= ChanCap
       THEN /\ old_loopPc' = "sending"
            /\ UNCHANGED <<old_guard, old_waiters, old_chan>>
       ELSE /\ old_chan' = IF isEvent THEN old_chan + 1 ELSE old_chan
            /\ OldUnlock
            /\ old_loopPc' = "lock"
            /\ old_waiters' = OldEnqueue(old_waiters, "loop")
    /\ UNCHANGED <<old_ws_stream, old_closePc, old_conn, old_connects>>
    /\ UNCHANGED <<reqVars, tVars, codecVars, newVars>>

\* The suspended send completes once the channel has room.
OldLoopSendResume ==
    /\ old_loopPc = "sending"
    /\ old_chan < ChanCap
    /\ old_chan' = old_chan + 1
    /\ OldUnlock
    /\ old_loopPc' = "lock"
    /\ old_waiters' = OldEnqueue(old_waiters, "loop")
    /\ UNCHANGED <<old_ws_stream, old_closePc, old_conn, old_read, old_connects>>
    /\ UNCHANGED <<reqVars, tVars, codecVars, newVars>>

\* stream.next() yields Some(Err(e)) or None: *guard = None; break.
OldLoopEnd ==
    /\ old_loopPc = "reading"
    /\ old_conn = "open"
    /\ old_ws_stream' = FALSE
    /\ old_conn' = "ended"
    /\ OldUnlock
    /\ old_loopPc' = "done"
    /\ UNCHANGED <<old_waiters, old_closePc, old_read, old_chan, old_connects>>
    /\ UNCHANGED <<reqVars, tVars, codecVars, newVars>>

\* The consumer takes an Event off the channel.
OldConsumerRecv ==
    /\ old_chan > 0
    /\ old_chan' = old_chan - 1
    /\ UNCHANGED <<old_ws_stream, old_guard, old_waiters, old_loopPc,
                   old_closePc, old_conn, old_read, old_connects>>
    /\ UNCHANGED <<reqVars, tVars, codecVars, newVars>>

\* close_event_stream is called: self.ws_stream.lock().await is polled.
OldCloseCall ==
    /\ old_closePc \in {"idle", "done"}
    /\ old_closePc' = "lock"
    /\ old_waiters' = OldEnqueue(old_waiters, "close")
    /\ UNCHANGED <<old_ws_stream, old_guard, old_loopPc, old_conn, old_read,
                   old_chan, old_connects>>
    /\ UNCHANGED <<reqVars, tVars, codecVars, newVars>>

\* The call gets the lock.
OldCloseLocked ==
    /\ old_closePc = "lock"
    /\ old_guard = "free" /\ old_waiters # <<>> /\ Head(old_waiters) = "close"
    /\ old_waiters' = Tail(old_waiters)
    /\ old_guard' = "close"
    /\ old_closePc' = "closing"
    /\ UNCHANGED <<old_ws_stream, old_loopPc, old_conn, old_read, old_chan, old_connects>>
    /\ UNCHANGED <<reqVars, tVars, codecVars, newVars>>

\* if let Some(mut stream) = guard.take() { stream.close(..).await }; Ok(())
OldCloseTake ==
    /\ old_closePc = "closing"
    /\ old_ws_stream' = FALSE
    /\ old_conn' = IF old_ws_stream THEN "closed" ELSE old_conn
    /\ OldUnlock
    /\ old_closePc' = "done"
    /\ UNCHANGED <<old_waiters, old_loopPc, old_read, old_chan, old_connects>>
    /\ UNCHANGED <<reqVars, tVars, codecVars, newVars>>

OldInit ==
    /\ ReqInit
    /\ TInit
    /\ comm_type = "WebSocket"
    /\ CodecIdle
    /\ NewIdle
    /\ OldIdle

OldNext ==
    \/ OldConnectEvents
    \/ OldLoopLock
    \/ \E isEvent \in BOOLEAN : OldLoopFrame(isEvent)
    \/ OldLoopSendResume
    \/ OldLoopEnd
    \/ OldConsumerRecv
    \/ OldCloseCall
    \/ OldCloseLocked
    \/ OldCloseTake

SpecOld == OldInit /\ [][OldNext]_vars

(***************************************************************************)
(* Properties of the event transport                                       *)
(***************************************************************************)
Streaming == comm_type = "WebSocket"

Listening == comm_type = "WebHook"

\* The messages read so far, as they were on the wire.
FramesRead == [i \in DOMAIN readLog |-> WireFrames[readLog[i]]]

\* Everything read has been handled and consumed by a consumer that is
\* still there, on a client connected once.
Delivered ==
    /\ Streaming /\ nConnects = 1 /\ rxOpen
    /\ event_chan = <<>>
    /\ \A k \in Sessions : loopPc[k] # "sending"

\* Event { time: 2, self_id: 1, kind: BotOffline { reason: "kicked" } }
BotOfflineEvent ==
    [time |-> 2, self_id |-> 1,
     kind |-> [tag |-> "bot_offline", variant |-> "-",
               data |-> JObj([reason |-> JStr("kicked")])]]

\* Event { time: 1, self_id: 1, kind: GroupNudge { group_id: 1, .. } }
GroupNudgeEvent ==
    [time |-> 1, self_id |-> 1,
     kind |-> [tag |-> "group_nudge", variant |-> "-",
               data |-> JObj([group_id |-> JInt(1), sender_id |-> JInt(2),
                              receiver_id |-> JInt(3),
                              display_action |-> JStr("poke"),
                              display_suffix |-> JStr(""),
                              display_action_img_url |-> JStr("")])]]

\* C5, as stated: after the two literal frames (the group_nudge frame with
\* only group_id, sender_id and receiver_id, then the bot_offline frame) the
\* consumer has received exactly two Events, the GroupNudge of time 1 and
\* then the BotOffline of time 2.
C5_TwoEventsFromLiteralFrames ==
    (Delivered /\ FramesRead = <<NudgeFrame, OfflineFrame>>)
    => /\ Len(received) = 2
       /\ received[1].time = 1
       /\ received[1].kind.tag = "group_nudge"
       /\ received[2] = BotOfflineEvent

\* C5, amended: the literal group_nudge frame lacks the required fields
\* display_action, display_suffix and display_action_img_url, so it is a
\* decode failure and is dropped: the consumer receives exactly one Event,
\* the BotOffline of time 2. When the group_nudge frame carries the three
\* fields, the consumer receives exactly the two Events, in that order.
C5_LiteralNudgeIsDropped ==
    /\ (Delivered /\ FramesRead = <<NudgeFrame, OfflineFrame>>)
       => received = <<BotOfflineEvent>>
    /\ (Delivered /\ FramesRead = <<FullNudgeFrame, OfflineFrame>>)
       => received = <<GroupNudgeEvent, BotOfflineEvent>>

C5_Witness ==
    /\ Delivered
    /\ FramesRead = <<NudgeFrame, OfflineFrame>>
    /\ received = <<BotOfflineEvent>>

\* A step of shutdown().
ShutdownStep == nShutdowns' = nShutdowns + 1

\* Nothing of the client but the call counter changes.
NoEffect ==
    UNCHANGED <<slotVars, loopVars, connVars, chanVars, logVars, whVars,
                appPc, appConn, connectResult, nConnects>>

\* C6: on a streaming client, whatever the interleaving of shutdown() calls
\* and the loops' reads: a connection has close() called on it by at most
\* one task, and only by the task that took it out of the slot, while that
\* task holds the mutex and the connection is still open; no read is
\* performed on a connection that is not in the slot; a shutdown() leaves
\* the sender slot empty, only connect_events() refills it, and a shutdown()
\* that finds the slot empty changes nothing.
C6_ShutdownIdempotentRaceFree ==
    [][/\ \A c \in Sessions : Cardinality(closeCalls'[c]) <= 1
       /\ ~staleRead'
       /\ \A k \in Sessions :
            loopPc'[k] = "sd_close"
            => /\ streamLock' = k
               /\ ws_stream' = 0
               /\ connState'[loopConn'[k]] = "open"
               /\ closeCalls'[loopConn'[k]] = {}
               /\ \A j \in Sessions \ {k} : loopConn'[j] # loopConn'[k]
       /\ ShutdownStep => ws_shutdown_signal_tx' = 0
       /\ (ShutdownStep /\ ws_shutdown_signal_tx = 0) => NoEffect
       /\ (ws_shutdown_signal_tx = 0 /\ ws_shutdown_signal_tx' # 0)
          => appPc = "install_tx"]_vars

\* Two shutdown() calls on one session, the second after the loop closed the
\* connection.
C6_Witness ==
    /\ Streaming /\ nConnects = 1 /\ nShutdowns = 2
    /\ closeCalls[1] = {1}
    /\ readLog # <<>>

\* An Open streaming client: the connection is in the slot and the session's
\* shutdown sender is installed.
OpenClient ==
    /\ Streaming
    /\ ws_stream # 0 /\ connState[ws_stream] = "open"
    /\ ws_shutdown_signal_tx # 0

C8_ShutdownStopsServer ==
    [][(ShutdownStep /\ Listening)
       => \A k \in Sessions : whPc'[k] # "serving"]_vars

\* C8, amended: on a listening client shutdown() changes nothing (no
\* shutdown sender is ever installed). The server leaves serving only on
\* Ctrl+C or SIGTERM; from then on it accepts no delivery, and it closes
\* only once its in-flight handlers are done.
C8_ShutdownIsNoOpWhenListening ==
    [][/\ (ShutdownStep /\ Listening) => NoEffect
       /\ \A k \in Sessions :
            /\ (whPc[k] = "serving" /\ whPc'[k] # "serving")
               => ~ShutdownStep /\ whPc'[k] = "stopping"
            /\ \A d \in whReplies' \cup whInflight' :
                 (d.id > nPosts /\ d.srv = k) => whPc[k] = "serving"
            /\ (whPc[k] = "stopping" /\ whPc'[k] # "stopping")
               => /\ whPc'[k] = "closed"
                  /\ \A w \in whInflight : w.srv # k]_vars

\* shutdown() was called while the server served, and it still serves.
C8_Witness ==
    /\ Listening
    /\ nShutdowns >= 1
    /\ \E k \in Sessions : whPc[k] = "serving"
    /\ nPosts >= 1

\* C9: every reply of the /webhook handler is 200 exactly when the body was
\* decoded and the Event forwarded into the channel, and 500 otherwise.
C9_ReplyReflectsOutcome ==
    \A r \in whReplies :
        /\ r.status = 200 <=> (r.decoded /\ r.forwarded)
        /\ ~(r.decoded /\ r.forwarded) => r.status = 500

\* The transport of call k is Open.
TransportOpen(k) ==
    IF Streaming THEN ws_stream = k /\ connState[k] = "open"
    ELSE whPc[k] = "serving"

\* C10: a connect_events() call whose handshake failed or whose listener
\* could not be bound returned an error, and a call returns Ok only with
\* the transport Open.
C10_ConnectReportsFailure ==
    [][\A k \in Sessions :
         /\ connState'[k] = "refused" => connectResult'[k] = "err"
         /\ whPc'[k] = "bind_failed" => connectResult'[k] = "err"
         /\ (connectResult[k] # "ok" /\ connectResult'[k] = "ok")
            => TransportOpen(k)']_vars

\* The holders of a Sender of the delivery channel: the client's own
\* event_sender field, the clone owned by each read loop that has not ended,
\* and the clone in the router of each server task that has not ended.
EventSenders ==
    {<<"client", 0>>}
    \cup {<<"loop", k>> : k \in {j \in Sessions :
                                    loopPc[j] \notin {"none", "done"}}}
    \cup {<<"server", k>> : k \in {j \in Sessions :
                                    whPc[j] \in {"binding", "serving",
                                                 "stopping"}}}

\* event_rx.recv() returns None: nothing is buffered and no Sender is left.
RecvReturnsNone == rxOpen /\ event_chan = <<>> /\ EventSenders = {}

\* The transport failed or the remote closed, every read loop has ended,
\* and the consumer has drained the channel.
EndedAndDrained ==
    /\ Streaming /\ rxOpen /\ appPc = "idle"
    /\ \E c \in Sessions : connEnd[c] = "ended"
    /\ \A k \in Sessions : loopPc[k] \in {"none", "done"}
    /\ event_chan = <<>>

\* C11: once the streaming transport has failed or the remote has closed,
\* the read loop has terminated and the consumer has drained the buffered
\* events, the consumer's recv returns None (end-of-stream) while the
\* client is still alive.
C11_ConsumerSeesEndOfStream == EndedAndDrained => RecvReturnsNone

\* The Events handle_event_message forwards for the messages of log, in the
\* order of log.
RECURSIVE ForwardedOf(_)
ForwardedOf(log) ==
    IF log = <<>> THEN <<>>
    ELSE LET h == HandleEventMessage(MessageOf("ws", Head(log))) IN
         (IF h.forward THEN <<h.event>> ELSE <<>>) \o ForwardedOf(Tail(log))

\* The Event a suspended send of a read loop still holds.
PendingSend ==
    IF \E k \in Sessions : loopPc[k] = "sending"
    THEN <<loopMsg[CHOOSE k \in Sessions : loopPc[k] = "sending"]>>
    ELSE <<>>

IsPrefix(s, t) == Len(s) <= Len(t) /\ s = SubSeq(t, 1, Len(s))

LastHandled(log) == HandleEventMessage(MessageOf("ws", log[Len(log)]))

\* The step reads one more message off the connection.
ReadsFrame == Len(readLog') = Len(readLog) + 1

\* C13: backpressure on a streaming client with one read loop. The channel
\* never holds more than its capacity; an Event decoded while the channel
\* has room is enqueued at once; an Event decoded while the channel is full
\* suspends the loop holding that Event, nothing being dropped; while the
\* loop is suspended no message is read; the suspended send can complete
\* as soon as the channel has room, and then it enqueues the held Event and
\* the loop is back at its select.
C13_Backpressure ==
    [][(Streaming /\ nConnects <= 1 /\ rxOpen) =>
        /\ Len(event_chan') <= ChanCap
        /\ \A k \in Sessions :
            /\ (ReadsFrame /\ loopPc[k] = "reading"
                  /\ LastHandled(readLog').forward)
               => IF Len(event_chan) < ChanCap
                  THEN /\ event_chan' =
                            Append(event_chan, LastHandled(readLog').event)
                       /\ loopPc'[k] = "select"
                  ELSE /\ event_chan' = event_chan
                       /\ loopPc'[k] = "sending"
                       /\ loopMsg'[k] = LastHandled(readLog').event
            /\ (loopPc[k] # "sending" /\ loopPc'[k] = "sending")
               => ReadsFrame /\ Len(event_chan) = ChanCap
            /\ loopPc[k] = "sending"
               => /\ ~ReadsFrame
                  /\ Len(event_chan) < ChanCap => ENABLED LoopSendResume(k)
                  /\ loopPc'[k] # "sending"
                     => /\ Len(event_chan) < ChanCap
                        /\ event_chan' = Append(event_chan, loopMsg[k])
                        /\ loopPc'[k] = "select"]_vars

\* The channel is full, the consumer has read nothing, and the loop is
\* suspended in the delivery of the next Event.
C13_Witness ==
    /\ Streaming /\ nConnects = 1 /\ rxOpen
    /\ received = <<>>
    /\ Len(event_chan) = ChanCap
    /\ \E k \in Sessions : loopPc[k] = "sending"

\* The text frame f carries an event_type that is no tag of EventKind.
UnknownTag(f) ==
    LET m == WireFrames[f] IN
    /\ m.kind = "text" /\ m.json /\ m.doc.ty = "obj"
    /\ HasKey(m.doc, "event_type")
    /\ m.doc.v["event_type"].ty = "str"
    /\ m.doc.v["event_type"].v \notin EventTags

KnownTag(f) == ~UnknownTag(f)

\* C14: reading a text frame whose event_type is outside the EventKind set
\* produces no Event: nothing is enqueued or held for delivery, the loop
\* that read it is back at its select, and the connection stays in the
\* slot, still open. What the consumer gets on a client with one read loop
\* is what it would get had the unknown-tag frames never been sent: every
\* other frame is decoded and delivered as before.
C14_UnknownTagIsDiscarded ==
    [][Streaming =>
        /\ (ReadsFrame /\ UnknownTag(readLog'[Len(readLog')]))
           => /\ event_chan' = event_chan
              /\ received' = received
              /\ loopMsg' = loopMsg
              /\ \A k \in Sessions :
                    loopPc[k] = "reading" => loopPc'[k] = "select"
              /\ ws_stream' = ws_stream
              /\ connState' = connState
        /\ (nConnects' <= 1 /\ rxOpen')
           => (received \o event_chan \o PendingSend)' =
                 ForwardedOf(SelectSeq(readLog', KnownTag))]_vars

\* An unknown-tag frame was read first, and the bot_offline frame read
\* after it has reached the consumer over the same connection.
C14_Witness ==
    /\ Streaming /\ nConnects = 1
    /\ Len(readLog) = 2
    /\ UnknownTag(readLog[1])
    /\ received = <<BotOfflineEvent>>
    /\ ws_stream = 1 /\ connState[1] = "open"

\* The frame f is a message_receive frame whose message_scene is missing, is
\* no string, or is a string other than friend, group and temp.
BadScene(f) ==
    LET m == WireFrames[f] IN
    /\ IsMessageReceive(m)
    /\ \A s \in MessageScenes : ~HasScene(m, s)

GoodScene(f) == ~BadScene(f)

\* C16: reading a message_receive frame whose message_scene is missing, is
\* not a string, or names no scene produces no Event: nothing is enqueued or
\* held for delivery, the loop that read it is back at its select and the
\* connection stays in the slot, still open. What the consumer gets is what
\* it would get had those frames never been sent: the frames before and
\* after them are decoded and delivered as before.
C16_BadSceneFailsThatFrameOnly ==
    [][Streaming =>
        /\ (ReadsFrame /\ BadScene(readLog'[Len(readLog')]))
           => /\ event_chan' = event_chan
              /\ received' = received
              /\ loopMsg' = loopMsg
              /\ \A k \in Sessions :
                    loopPc[k] = "reading" => loopPc'[k] = "select"
              /\ ws_stream' = ws_stream
              /\ connState' = connState
        /\ (nConnects' <= 1 /\ rxOpen')
           => (received \o event_chan \o PendingSend)' =
                 ForwardedOf(SelectSeq(readLog', GoodScene))]_vars

\* A message_receive frame with the scene "channel" was read first, and the
\* bot_offline frame read after it has reached the consumer over the same
\* connection.
C16_Witness ==
    /\ Streaming /\ nConnects = 1
    /\ Len(readLog) = 2
    /\ BadScene(readLog[1])
    /\ HasScene(WireFrames[readLog[1]], "channel")
    /\ received = <<BotOfflineEvent>>
    /\ ws_stream = 1 /\ connState[1] = "open"

(***************************************************************************)
(* Properties of the codec                                                 *)
(***************************************************************************)
\* The decode result r is a MessageReceive event of the given variant.
IsMessage(r, variant) ==
    /\ r.ok
    /\ r.event.kind.tag = "message_receive"
    /\ r.event.kind.variant = variant

\* C15: for every message_receive frame the message_scene value alone
\* selects the decoded shape. Scene "friend" yields MessageEvent::Friend
\* when the friend profile is there and a failure otherwise; scene "group"
\* yields MessageEvent::Group when both group and group_member are there
\* and a failure otherwise, whatever else the payload carries; scene "temp"
\* yields MessageEvent::Temp with the group profile Some or None as the
\* payload has it.
C15_SceneSelectsShape ==
    \A i \in DOMAIN codecOut :
        LET m == codecWire[i]
            r == codecOut[i]
        IN  IsMessageReceive(m) =>
            /\ HasScene(m, "friend")
               => IF HasKey(FrameData(m), "friend")
                  THEN IsMessage(r, "Friend") ELSE ~r.ok
            /\ HasScene(m, "group")
               => IF /\ HasKey(FrameData(m), "group")
                     /\ HasKey(FrameData(m), "group_member")
                  THEN IsMessage(r, "Group") ELSE ~r.ok
            /\ HasScene(m, "temp")
               => /\ IsMessage(r, "Temp")
                  /\ r.event.kind.data.v["group"].ty = "null"
                        <=> ~HasKey(FrameData(m), "group")

\* A frame with scene "group" that lacks group_member but carries a friend
\* profile and a group profile has been decoded, to a failure.
C15_Witness ==
    /\ ~codecIn.some
    /\ Len(codecOut) = 1
    /\ IsMessageReceive(codecWire[1])
    /\ HasScene(codecWire[1], "group")
    /\ HasKey(FrameData(codecWire[1]), "friend")
    /\ HasKey(FrameData(codecWire[1]), "group")
    /\ ~HasKey(FrameData(codecWire[1]), "group_member")
    /\ ~codecOut[1].ok

\* The Event handed to the encoder has been encoded and decoded again.
RoundTripDone == codecIn.some /\ Len(codecOut) = 1

\* Event's derived PartialEq: time, self_id, the variant, then its fields.
SameEvent(a, b) ==
    /\ a.time = b.time
    /\ a.self_id = b.self_id
    /\ a.kind.tag = b.kind.tag
    /\ a.kind.variant = b.kind.variant
    /\ a.kind.data = b.kind.data

\* C17: decoding the wire JSON produced by encoding a constructible Event x
\* succeeds and yields x, for every EventKind variant and, for
\* MessageReceive, for every MessageEvent variant with any inner
\* message_scene and, for Temp, with or without the group.
C17_RoundTrip ==
    RoundTripDone
        => codecOut[1].ok /\ SameEvent(codecOut[1].event, codecIn.event)

(***************************************************************************)
(* Properties of construction and of the request address                   *)
(***************************************************************************)
\* C18: whatever the config the client was built from, send_request posts
\* action A to the path /api/A on the configured server: the action goes
\* below the api segment and does not replace it.
C18_ActionBelowApi ==
    posted.some =>
        /\ posted.url.host = comm.endpoint.host
        /\ posted.url.path = <<"api", posted.action>>

\* C19: new returns an error exactly when the configured address does not
\* parse or its scheme is not one of the strategy's (ws and wss when
\* streaming, http and https when listening), and a request is never posted
\* to an address with another scheme than http or https.
C19_NewFailsFast ==
    /\ built.done =>
          (built.ok <=>
              /\ comm.endpoint.valid
              /\ comm.endpoint.scheme \in
                    (IF comm.kind = "WebSocket" THEN {"ws", "wss"}
                     ELSE {"http", "https"}))
    /\ posted.some => posted.url.scheme \in {"http", "https"}

(***************************************************************************)
(* Properties of the single-transport client                               *)
(***************************************************************************)
\* C20: a close_event_stream call that waits for the slot while a connection
\* is there and the read loop waits for the next frame can go on by itself:
\* it gets the lock (and then takes the connection, sends Close and returns)
\* without the server sending a frame or ending the stream first.
C20_CloseNeedsNoFrame ==
    (old_closePc = "lock" /\ old_ws_stream /\ old_loopPc = "reading")
        => ENABLED OldCloseLocked

(***************************************************************************)
(* Further properties of the streaming read loop                           *)
(***************************************************************************)
\* The shutdown receiver of loop k has resolved and the loop is at its
\* select!, about to poll or with its read pending.
SignalPendingAtSelect(k) ==
    /\ sig[k] \in {"sent", "dropped"}
    /\ loopPc[k] \in {"select", "reading"}

\* The loop k has left its select! for good.
PastSelect(k) ==
    loopPc[k] \in {"sd_lock", "sd_close", "rd_end", "exit", "done"}

\* C21: a loop whose shutdown receiver has resolved when it is at its
\* select! does nothing but take the shutdown branch, also while a frame is
\* there to be read: it reads no message and starts no delivery; the
\* resolved receiver stays resolved, and a loop that has left its select!
\* never comes back to it. With one loop, nothing is read from then on.
C21_ShutdownHasPriority ==
    [][Streaming =>
        \A k \in Sessions :
            /\ SignalPendingAtSelect(k)
               => /\ loopPc'[k] \in {loopPc[k], "sd_lock"}
                  /\ loopMsg'[k] = loopMsg[k]
                  /\ nConnects <= 1
                     => /\ ~ReadsFrame
                        /\ \/ event_chan' = event_chan
                           \/ Len(event_chan') < Len(event_chan)
            /\ sig[k] \in {"sent", "dropped"} => sig'[k] = sig[k]
            /\ PastSelect(k) => PastSelect(k)'
            /\ (PastSelect(k) /\ nConnects' <= 1) => ~ReadsFrame]_vars

\* The loop took the shutdown branch on the signal of shutdown() while the
\* connection was open and in the slot and a further frame could be read.
C21_Witness ==
    /\ Streaming /\ nConnects = 1
    /\ sig[1] = "sent" /\ loopPc[1] = "sd_lock"
    /\ ws_stream = 1 /\ connState[1] = "open" /\ connEnd[1] = "no"
    /\ Len(readLog) = 1 /\ Len(readLog) < MaxFrames

\* The connection in the slot has failed or was closed by the remote, or
\* the slot is empty.
NothingToRead == ws_stream = 0 \/ connEnd[ws_stream] = "ended"

\* C22: a loop whose read ended in an error or in the end of the stream
\* takes the connection out of the slot and goes on to exit, without
\* coming back to its select!. Nothing but connect_events() puts a
\* connection into the slot, so without a further call the slot stays
\* empty; and no message is read while the slot is empty or holds the
\* connection that has ended.
C22_NoReconnect ==
    [][Streaming =>
        /\ \A k \in Sessions :
              /\ (loopPc[k] = "reading" /\ loopPc'[k] = "rd_end")
                 => connEnd'[ws_stream] = "ended"
              /\ (loopPc[k] = "rd_end" /\ loopPc'[k] # "rd_end")
                 => ws_stream' = 0 /\ loopPc'[k] = "exit"
              /\ (loopPc[k] = "exit" /\ loopPc'[k] # "exit")
                 => loopPc'[k] = "done"
              /\ loopPc[k] = "done" => loopPc'[k] = "done"
        /\ ws_stream' # ws_stream
           => \/ ws_stream' = 0
              \/ appPc = "install_stream" /\ ws_stream' = appConn
        /\ NothingToRead => ~ReadsFrame
        /\ \A c \in Sessions : connEnd[c] = "ended" => connEnd'[c] = "ended"]_vars

\* The stream ended after one message although more could have been read;
\* the loop has finished and the slot is empty, on a client connected once.
C22_Witness ==
    /\ Streaming /\ nConnects = 1 /\ appPc = "idle"
    /\ connEnd[1] = "ended" /\ loopPc[1] = "done"
    /\ ws_stream = 0 /\ nShutdowns = 0
    /\ Len(readLog) = 1 /\ Len(readLog) < MaxFrames

\* The read-loop tasks that were spawned and have not ended.
RunningLoops == {k \in Sessions : loopPc[k] \notin {"none", "done"}}

\* C23: a streaming client has at most one read-loop task running at any
\* moment, however often and whenever connect_events() is called, and a
\* listening client has none.
C23_AtMostOneLoop ==
    /\ Streaming => Cardinality(RunningLoops) <= 1
    /\ Listening => RunningLoops = {}

(***************************************************************************)
(* Further properties of the codec                                         *)
(***************************************************************************)
\* The segments the payload of the message_receive frame m carries.
SegmentsOf(m) == FrameData(m).v["segments"].v

\* The tag of the segment g is no tag of IncomingSegment.
UnknownKind(g) ==
    ~(HasKey(g, "type") /\ g.v["type"].ty = "str"
      /\ g.v["type"].v \in SegmentTags)

\* The frame m carries a segment of an unknown kind, or one whose payload is
\* not the payload of its kind.
HasBadSegment(m) ==
    \E i \in DOMAIN SegmentsOf(m) : ~GoodSegment(SegmentsOf(m)[i])

\* C24: a message_receive frame with a segment of an unknown kind, or with a
\* segment whose payload does not fit its kind, is a decode failure as a
\* whole, whatever its other segments are; and a frame that does decode has
\* as many segments as were on the wire, each with the tag it had there,
\* which is one of the 13 tags of IncomingSegment.
C24_SegmentsAtomic ==
    \A i \in DOMAIN codecOut :
        LET m == codecWire[i] IN
        IsMessageReceive(m) =>
            /\ HasBadSegment(m) => ~codecOut[i].ok
            /\ codecOut[i].ok =>
                  LET segs == codecOut[i].event.kind.data.v["segments"].v IN
                  /\ Len(segs) = Len(SegmentsOf(m))
                  /\ \A j \in DOMAIN segs :
                        /\ ~UnknownKind(SegmentsOf(m)[j])
                        /\ segs[j].v["type"] = SegmentsOf(m)[j].v["type"]

\* A frame with a valid text segment followed by a segment of the unknown
\* kind sticker was decoded, and the result is a failure.
C24_Witness ==
    /\ Len(codecOut) = 1
    /\ IsMessageReceive(codecWire[1])
    /\ Len(SegmentsOf(codecWire[1])) = 2
    /\ GoodSegment(SegmentsOf(codecWire[1])[1])
    /\ UnknownKind(SegmentsOf(codecWire[1])[2])
    /\ ~codecOut[1].ok

\* The MessageEvent of the event e: its variant and the struct it wraps.
IsMessageKind(e) == e.kind.tag = "message_receive"

\* message_scene() and base_message() agree on the MessageEvent of e.
HelpersAgree(e) ==
    message_scene(e.kind.variant, e.kind.data)
        = base_message(e.kind.variant, e.kind.data).v["message_scene"].v

\* C25: for every MessageEvent, constructed or decoded, message_scene()
\* is the message_scene of base_message(); and for every MessageEvent that
\* was decoded from a frame the scene is the one of the variant: Friend
\* carries friend, Group carries group, Temp carries temp.
C25_SceneAgreesWithVariant ==
    /\ (codecIn.some /\ IsMessageKind(codecIn.event))
          => HelpersAgree(codecIn.event)
    /\ \A i \in DOMAIN codecOut :
          (codecOut[i].ok /\ IsMessageKind(codecOut[i].event)) =>
             LET k == codecOut[i].event.kind IN
             /\ HelpersAgree(codecOut[i].event)
             /\ k.variant = "Friend" => message_scene(k.variant, k.data) = "friend"
             /\ k.variant = "Group" => message_scene(k.variant, k.data) = "group"
             /\ k.variant = "Temp" => message_scene(k.variant, k.data) = "temp"

\* A constructed MessageEvent::Friend whose inner scene is temp was encoded
\* and the frame decoded again, to a MessageEvent::Temp with scene temp.
C25_Witness ==
    /\ RoundTripDone
    /\ IsMessageKind(codecIn.event)
    /\ codecIn.event.kind.variant = "Friend"
    /\ message_scene("Friend", codecIn.event.kind.data) = "temp"
    /\ codecOut[1].ok
    /\ codecOut[1].event.kind.variant = "Temp"

(***************************************************************************)
(* Shutdown, sessions and the frames that are no events                    *)
(***************************************************************************)
\* A step of the read-loop task of session k.
LoopStep(k) ==
    \/ LoopShutdownBranch(k)
    \/ LoopReadLock(k)
    \/ \E f \in FrameIds : LoopNextFrame(k, f)
    \/ LoopNextEnd(k)
    \/ LoopSendResume(k)
    \/ LoopTakeAfterEnd(k)
    \/ LoopShutdownTake(k)
    \/ \E sent \in BOOLEAN : LoopClose(k, sent)
    \/ LoopExit(k)

\* shutdown() has sent the signal of session k and the loop of k has not
\* ended.
ShutdownPending(k) == sig[k] = "sent" /\ loopPc[k] \notin {"none", "done"}

\* C26: once shutdown() has signalled a running read loop, the loop goes on
\* to its exit without any help of the consumer, also with the delivery
\* channel full: as long as no other task holds the lock of the connection
\* slot, the signalled loop can take its next step.
C26_ShutdownNeedsNoConsumer ==
    \A k \in Sessions :
        (Streaming /\ ShutdownPending(k) /\ streamLock \in {0, k})
            => ENABLED LoopStep(k)

\* The loop of session k takes the content of the connection slot in this
\* step (either take() of the loop).
LoopTakesStream(k) ==
    /\ loopPc[k] \in {"rd_end", "sd_lock"}
    /\ loopPc'[k] \in {"exit", "sd_close"}

\* The loop of session k takes the content of the sender slot in this step.
LoopTakesSender(k) == loopPc[k] = "exit" /\ loopPc'[k] = "done"

\* C27: the sessions of a streaming client are independent. The loop of a
\* session that is on its way out takes from the connection slot only the
\* connection of its own session and from the sender slot only the sender
\* of its own session, never those a later connect_events() installed; and
\* a connection is closed only by the loop of its own session.
C27_SessionsIndependent ==
    [][\A k \in Sessions :
          /\ LoopTakesStream(k) => ws_stream \in {0, k}
          /\ LoopTakesSender(k) => ws_shutdown_signal_tx \in {0, k}
          /\ \A c \in Sessions : k \in closeCalls'[c] => c = k]_vars

\* connect_events() succeeded for session k and no other call has opened a
\* connection.
SingleSession(k) ==
    /\ Streaming
    /\ connectResult[k] = "ok"
    /\ \A c \in Sessions \ {k} : connState[c] \in {"none", "refused"}

\* The shutdown() of this step changes nothing but the count of calls: no
\* signal is sent, no slot changes, no connection is closed.
ShutdownIsNoOp ==
    nShutdowns' # nShutdowns
        => UNCHANGED <<slotVars, loopVars, connVars, chanVars, logVars>>

\* C28: on a streaming client with one successful connect_events(), once
\* the read-loop task has finished, by the shutdown signal, a read error or
\* the remote close, the connection slot and the sender slot are both
\* empty, and a shutdown() called from then on changes no state and closes
\* nothing.
C28_FinishedLoopLeavesSlotsEmpty ==
    /\ [](\A k \in Sessions :
            (SingleSession(k) /\ loopPc[k] = "done")
                => ws_stream = 0 /\ ws_shutdown_signal_tx = 0)
    /\ [][\A k \in Sessions :
            (SingleSession(k) /\ loopPc[k] = "done") => ShutdownIsNoOp]_vars

\* The loop of the only session has finished after its connection ended,
\* the sender was still in its slot then, and shutdown() has been called.
C28_Witness ==
    /\ SingleSession(1) /\ loopPc[1] = "done"
    /\ connEnd[1] = "ended" /\ sig[1] = "dropped"
    /\ nShutdowns > 0 /\ closeCalls[1] = {}

\* The loop of session k completes a read of a message in this step.
LoopReadsFrame(k) ==
    /\ loopPc[k] = "reading"
    /\ loopPc'[k] # "reading"
    /\ readLog' # readLog

\* The suspended send of the loop of session k completes in this step.
LoopSendReturns(k) == loopPc[k] = "sending" /\ loopPc'[k] # "sending"

\* C29: dropping the event receiver ends nothing. The drop itself leaves
\* the loops, the slots and the connections as they are. From then on a
\* loop that reads a message, or whose suspended send returns, is back at
\* its select! with the slot and the connections unchanged, no loop
\* suspends in send, the channel stays empty and nothing more is received;
\* a loop leaves for its exit only after its read ended or its shutdown
\* receiver resolved, and the slot changes only by the take of such a loop
\* or by a connect_events() call storing a new connection.
C29_ReceiverDropIsHarmless ==
    [][/\ (rxOpen /\ ~rxOpen') => UNCHANGED <<slotVars, loopVars, connVars>>
       /\ (Streaming /\ ~rxOpen) =>
            /\ event_chan' = <<>> /\ received' = received
            /\ \A k \in Sessions :
                  /\ (LoopReadsFrame(k) \/ LoopSendReturns(k))
                        => /\ loopPc'[k] = "select"
                           /\ UNCHANGED <<ws_stream, connVars>>
                  /\ loopPc'[k] = "sending" => loopPc[k] = "sending"
                  /\ (loopPc'[k] = "rd_end" /\ loopPc[k] # "rd_end")
                        => \/ ws_stream = 0
                           \/ connEnd'[ws_stream] = "ended"
                  /\ (loopPc'[k] = "sd_lock" /\ loopPc[k] # "sd_lock")
                        => ShutdownReady(k)
            /\ ws_stream' # ws_stream
                  => \/ appPc = "install_stream"
                     \/ \E k \in Sessions : LoopTakesStream(k)]_vars

\* The receiver is gone, two messages that decode to Events have been read,
\* nothing was delivered, and the loop is at its select! with its
\* connection open in the slot.
C29_Witness ==
    /\ Streaming /\ ~rxOpen
    /\ nConnects = 1 /\ loopPc[1] = "select"
    /\ ws_stream = 1 /\ connState[1] = "open" /\ connEnd[1] = "no"
    /\ received = <<>> /\ event_chan = <<>>
    /\ Len(readLog) = MaxFrames
    /\ \A i \in DOMAIN readLog :
          HandleEventMessage(MessageOf("ws", readLog[i])).forward

\* The message the read of this step yielded.
FrameRead == MessageOf("ws", readLog'[Len(readLog')])

\* The loop of session k completes the read of a message that is no text:
\* Binary, Ping, Pong, Close or Frame.
LoopReadsNonText(k) == LoopReadsFrame(k) /\ FrameRead.kind # "text"

\* C30: in streaming mode only text frames produce Events. A binary, ping,
\* pong, close or raw frame the loop reads puts nothing into the delivery
\* channel, holds no Event back for it, and leaves the loop at its select!
\* with the connection slot and the connection as they were; the channel
\* grows only by the Event of a text frame; and a loop leaves for its exit
\* only when its shutdown receiver has resolved or its read ended with an
\* error or the end of the stream.
C30_OnlyTextFramesMakeEvents ==
    [][Streaming =>
        \A k \in Sessions :
            /\ LoopReadsNonText(k)
                  => /\ loopPc'[k] = "select"
                     /\ UNCHANGED <<event_chan, loopMsg, ws_stream, connVars>>
            /\ (LoopReadsFrame(k) /\ event_chan' # event_chan)
                  => /\ FrameRead.kind = "text"
                     /\ event_chan' = Append(event_chan, DecodeEvent(FrameRead).event)
            /\ (loopPc'[k] \in {"rd_end", "sd_lock", "exit", "done"}
                    /\ loopPc[k] \in {"select", "reading", "sending"})
                  => \/ ShutdownReady(k) /\ loopPc'[k] = "sd_lock"
                     \/ /\ loopPc'[k] = "rd_end"
                        /\ readLog' = readLog
                        /\ ws_stream = 0 \/ connEnd'[ws_stream] = "ended"]_vars

\* A Close frame and a binary frame carrying the JSON of an Event have been
\* read; nothing was delivered and the loop is at its select! with the
\* connection open in the slot and the receiver in place.
C30_Witness ==
    /\ Streaming /\ rxOpen
    /\ Len(readLog) = 2
    /\ WireFrames[readLog[1]].kind = "close"
    /\ WireFrames[readLog[2]] = NonTextFrames[1]
    /\ loopPc[1] = "select"
    /\ ws_stream = 1 /\ connState[1] = "open" /\ connEnd[1] = "no"
    /\ event_chan = <<>> /\ received = <<>>

====
